---- MODULE Spec2Model ----
(***************************************************************************)
(* Process-tree protocol of the kernel: sys_clone, sys_exit, sys_waitpid   *)
(* (os/kernel/src/syscall/process.rs) over the per-process alive/zombie    *)
(* maps, the per-process spin lock, the cooperative yield and the ready    *)
(* queue.  One action per lock-delimited step of a handler; program        *)
(* positions are named after the source line they stand at.  sys_exec, the *)
(* registers and kernel stack a clone sets up, and the descriptor table    *)
(* (os/kernel/src/syscall/fs.rs, os/kernel/src/task/mod.rs) are modelled   *)
(* over the same variables, each under a specification of its own.         *)
(***************************************************************************)
EXTENDS Integers, Sequences, FiniteSets, TLC

\* ---------------------------------------------------------------- bounds
\* Number of pids the allocator may hand out (pids 0 .. MaxProcs-1).
MaxProcs == 3

\* pid of the bootstrap process (PCB::new sets pid: 0).
RootPid == 0

\* Number of pids under the fair specification, which has fewer inputs.
LiveProcs == 4

Pids == 0 .. (LiveProcs - 1)

\* Longest fd table, number of OpenFiles made by sys_openat (the three of
\* FdManager::new included) and longest file data.
MaxFds == 6
MaxOpenFiles == 5
MaxFile == 2
\* Number of pipes and longest pipe buffer.
MaxPipes == 1
MaxPipeData == 3
\* Exit codes passed to sys_exit (an i32): failure, success, a user code.
ExitCodes == {-1, 0, 3}
\* waitpid's first argument: -1 (any child) or a specific pid.
WaitTargets == {-1} \cup (0 .. (MaxProcs - 1))
\* options: 0 = blocking, 1 = WNOHANG; the code only tests options > 0.
WaitOptions == {0, 1}
\* status pointer: 0 = null, 1 = the address of the caller's status cell.
StatusPtrs == {0, 1}

NoParent == -1
Free == -1
\* Content of a status cell the kernel has not written (no value c << 8).
Unwritten == 1

\* config::TRAMPOLINE and config::KERNEL_STACK_SIZE, in pages.
TRAMPOLINE == 64
KERNEL_STACK_SIZE == 2

\* CloneFlags::CLONE_FILES and CloneFlags::CLONE_SETTLS, by bit number.
CLONE_FILES == 10
CLONE_SETTLS == 19

\* Absolute paths a syscall may name.
Paths == {"/a", "/null"}
\* No inode (the None of an Option).
NoInode == ""
\* The n-th RegFileINode that sys_openat makes.
RegFileINode(n) == "ino" \o ToString(n)

VARIABLES
    state,       \* PCB.state of each pid ("NONE" before the PCB exists)
    exit_code,   \* PCB.exit_code
    parent,      \* PCB.parent: a pid or NoParent
    alive,       \* PCB.children.alive, as the set of its keys
    zombie,      \* PCB.children.zombie, as the set of its keys
    lock,        \* Process.inner: Free, or the pid of the task that took it
    exit,        \* Thread.inner.exit
    pc,          \* position of each process's task
    call,        \* arguments of the syscall in progress
    pid_sel,     \* sys_waitpid's local pid (line 257)
    new_pid,     \* sys_clone's local new_pid (line 116)
    ret,         \* result of the last syscall (a0 of the trap frame)
    umem,        \* the caller's status cell in user memory
    TASK_QUEUE,  \* the ready queue of runnables
    running,     \* tasks being polled by a core
    cores,       \* number of cores driving the run loop
    next_pid,    \* PID_ALLOCATOR
    halted,      \* shutdown() was called
    reaped,      \* history: pids sys_waitpid has reported reaped, per caller
    trapframe,   \* saved user registers x[2], x[4] and kernel_sp of each pid
    kstack,      \* kernel stack region installed in KERNEL_SPACE for each pid
    fd_manager,  \* PCB.fd_manager: the FdManager each process refers to
    fd_array,    \* FdManager.fd_array of every FdManager
    open_files,  \* every OpenFile created so far: its offset and inode
    file,        \* RegFileINode of each regular inode: name and data length
    global_dentry_cache, \* the dentry cache: absolute path -> inode
    cwd,         \* PCB.cwd
    inode_sel,   \* sys_openat's result of global_dentry_cache.get (line 89)
    created,     \* history: the inode the caller's last fd syscall created
    global_buffer_list,  \* the byte buffer of every pipe made so far
    inode_lock,  \* lock of each pipe end's inode, by OpenFile: Free or a pid
    avail,       \* history: bytes in the pipe when the caller's read began
    read_i,      \* sys_read's loop index i over a pipe (line 327)
    ubuf,        \* what sys_read (from a pipe) or sys_pipe2 stored for the caller
    dents        \* the entries sys_getdents64 stored in the caller's buffer

\* The saved registers and the kernel stacks.
regvars == <<trapframe, kstack>>

\* The file-descriptor layer.
fsvars == <<fd_manager, fd_array, open_files, file, global_dentry_cache,
            cwd, inode_sel, created>>

\* The pipes and the user buffers that read and getdents fill.
pipevars == <<global_buffer_list, inode_lock, avail, read_i, ubuf, dents>>

vars == <<state, exit_code, parent, alive, zombie, lock, exit, pc, call,
          pid_sel, new_pid, ret, umem, TASK_QUEUE, running, cores, next_pid,
          halted, reaped, regvars, fsvars, pipevars>>

NoCall == [nr |-> "none", pid |-> 0, status |-> 0, options |-> 0, code |-> 0,
           flags |-> 0, stack |-> 0, tls |-> 0, fd |-> 0, new_fd |-> 0,
           len |-> 0, path |-> "", data |-> <<>>, list_ok |-> TRUE]

\* The caller's last fd syscall created no inode.
NoCreated == [path |-> "", flags |-> 0, fd |-> -1]

\* ------------------------------------------------------------- helpers
\* Variant: the entry with the largest key (last_key_value).
last_key_value(m) == CHOOSE k \in m : \A j \in m : k >= j

\* BTreeMap::first_key_value: the entry with the smallest key.
first_key_value(m) == CHOOSE k \in m : \A j \in m : k <= j

\* Variant: the exit code stored without the shift.
StatusWord_noshift(code) == code

\* (exit_code << 8) | 0 on isize; an i32 code shifted by 8 fits 64 bits.
StatusWord(code) == code * 256

\* Children::turn_into_zombie(pid): move pid from alive to zombie.
turn_into_zombie(ch, pid) ==
    IF pid \in ch.alive
    THEN [alive |-> ch.alive \ {pid}, zombie |-> ch.zombie \cup {pid}]
    ELSE ch

\* PID_ALLOCATOR.alloc_pid(): pids are handed out in increasing order.
alloc_pid == next_pid

\* Variant: the first poll reports Pending without waking the task.
YieldFuture_nowake(p) ==
    /\ TASK_QUEUE' = TASK_QUEUE
    /\ running' = running \ {p}

\* Variant: the first poll wakes the task twice.
YieldFuture_twice(p) ==
    /\ TASK_QUEUE' = Append(Append(TASK_QUEUE, p), p)
    /\ running' = running \ {p}

\* YieldFuture::poll, first poll: wake_by_ref re-enqueues the task and the
\* poll reports Pending, so the core drops the task.
YieldFuture(p) ==
    /\ TASK_QUEUE' = Append(TASK_QUEUE, p)
    /\ running' = running \ {p}

\* A task may take a step only while a core polls it and the machine is up.
OnCore(p) == p \in running /\ ~halted

\* Variant: a kernel stack of twice the size, reaching into the next one.
kernel_stack_double(pid) ==
    [lo |-> TRAMPOLINE - KERNEL_STACK_SIZE * (pid + 2),
     hi |-> TRAMPOLINE - KERNEL_STACK_SIZE * pid]

\* Lines 142-146: the kernel stack region installed for pid.
kernel_stack(pid) ==
    [lo |-> TRAMPOLINE - KERNEL_STACK_SIZE * (pid + 1),
     hi |-> TRAMPOLINE - KERNEL_STACK_SIZE * pid]

\* Every OpenFile::new(): offset 0 and a fresh inode named "null". No code
\* compares or changes such an OpenFile, so one value stands for all.
NullFile == 0

\* No kernel stack installed.
NoStack == [lo |-> 0, hi |-> 0]

\* An OpenFile: its offset, its inode and, for the inode of a pipe end, the
\* buffer of global_buffer_list it refers to (0 for any other inode).
OpenFile(offset, inode, buf) == [offset |-> offset, inode |-> inode, buf |-> buf]

\* A FileDescriptor.
FileDescriptor(of, r, w) == [open_file |-> of, readable |-> r, writable |-> w]

\* FdManager::new: stdin (readable), stdout and stderr (writable), each with
\* an OpenFile of its own (open_files 1, 2 and 3).
FdManager_new ==
    <<FileDescriptor(1, TRUE, FALSE), FileDescriptor(2, FALSE, TRUE),
      FileDescriptor(3, FALSE, TRUE)>>

\* OpenFile::new_stdin, new_stdout, new_stderr.
StdOpenFiles ==
    <<OpenFile(0, "stdin", 0), OpenFile(0, "stdout", 0),
      OpenFile(0, "stderr", 0)>>

\* The state after boot on a machine of ncores cores: the root process, in
\* user mode, is the only task.
Booted(ncores) ==
    /\ state = [p \in Pids |-> IF p = RootPid THEN "READY" ELSE "NONE"]
    /\ exit_code = [p \in Pids |-> 0]
    /\ parent = [p \in Pids |-> NoParent]
    /\ alive = [p \in Pids |-> {}]
    /\ zombie = [p \in Pids |-> {}]
    /\ lock = [p \in Pids |-> Free]
    /\ exit = [p \in Pids |-> FALSE]
    /\ pc = [p \in Pids |-> IF p = RootPid THEN "user" ELSE "none"]
    /\ call = [p \in Pids |-> NoCall]
    /\ pid_sel = [p \in Pids |-> 0]
    /\ new_pid = [p \in Pids |-> 0]
    /\ ret = [p \in Pids |-> 0]
    /\ umem = [p \in Pids |-> Unwritten]
    /\ TASK_QUEUE = <<RootPid>>
    /\ running = {}
    /\ cores = ncores
    /\ next_pid = RootPid + 1
    /\ halted = FALSE
    /\ reaped = [p \in Pids |-> {}]
    /\ trapframe = [p \in Pids |->
                       IF p = RootPid
                       THEN [x2 |-> 4, x4 |-> 0,
                             kernel_sp |-> kernel_stack(p).hi]
                       ELSE [x2 |-> 0, x4 |-> 0, kernel_sp |-> 0]]
    /\ kstack = [p \in Pids |-> IF p = RootPid THEN kernel_stack(p)
                                                ELSE NoStack]
    /\ fd_manager = [p \in Pids |-> p]
    /\ fd_array = [t \in Pids |-> IF t = RootPid THEN FdManager_new ELSE <<>>]
    /\ open_files = StdOpenFiles
    /\ file = [i \in {} |-> [name |-> "", len |-> 0]]
    /\ global_dentry_cache = [k \in {} |-> NoInode]
    /\ cwd = [p \in Pids |-> "/"]
    /\ inode_sel = [p \in Pids |-> NoInode]
    /\ created = [p \in Pids |-> NoCreated]
    /\ global_buffer_list = <<>>
    /\ inode_lock = [i \in 1 .. (MaxOpenFiles + 2 * MaxPipes) |-> Free]
    /\ avail = [p \in Pids |-> 0]
    /\ read_i = [p \in Pids |-> 0]
    /\ ubuf = [p \in Pids |-> <<>>]
    /\ dents = [p \in Pids |-> <<>>]

\* One core drives the run loop.
Init == Booted(1)

\* Two cores drive the run loop.
SmpInit == Booted(2)

\* ------------------------------------------------------------ run loop
\* The run loop pops the next runnable and polls it.
run ==
    /\ ~halted
    /\ Cardinality(running) < cores
    /\ TASK_QUEUE # <<>>
    /\ running' = running \cup {Head(TASK_QUEUE)}
    /\ TASK_QUEUE' = Tail(TASK_QUEUE)
    /\ UNCHANGED <<state, exit_code, parent, alive, zombie, lock, exit, pc,
                   call, pid_sel, new_pid, ret, umem, cores, next_pid, halted,
                   reaped>>
    /\ UNCHANGED <<regvars, fsvars, pipevars>>

\* user_loop after a syscall with the exit flag set: the task's future
\* completes and the task is never enqueued again.
user_loop_exit(p) ==
    /\ OnCore(p)
    /\ pc[p] = "sysret"
    /\ exit[p]
    /\ pc' = [pc EXCEPT ![p] = "done"]
    /\ running' = running \ {p}
    /\ UNCHANGED <<state, exit_code, parent, alive, zombie, lock, exit, call,
                   pid_sel, new_pid, ret, umem, TASK_QUEUE, cores, next_pid,
                   halted, reaped>>
    /\ UNCHANGED <<regvars, fsvars, pipevars>>

\* user_loop after a syscall with the exit flag clear: back to user mode.
user_loop_next(p) ==
    /\ OnCore(p)
    /\ pc[p] = "sysret"
    /\ ~exit[p]
    /\ pc' = [pc EXCEPT ![p] = "user"]
    /\ call' = [call EXCEPT ![p] = NoCall]
    /\ UNCHANGED <<state, exit_code, parent, alive, zombie, lock, exit,
                   pid_sel, new_pid, ret, umem, TASK_QUEUE, running, cores,
                   next_pid, halted, reaped>>
    /\ UNCHANGED <<regvars, fsvars, pipevars>>

\* ------------------------------------------------------------ sys_exit
\* The process traps into sys_exit(code).
trap_exit(p, code) ==
    /\ OnCore(p)
    /\ pc[p] = "user"
    /\ pc' = [pc EXCEPT ![p] = "exit_86"]
    /\ call' = [call EXCEPT ![p] = [NoCall EXCEPT !.nr = "exit", !.code = code]]
    /\ UNCHANGED <<state, exit_code, parent, alive, zombie, lock, exit,
                   pid_sel, new_pid, ret, umem, TASK_QUEUE, running, cores,
                   next_pid, halted, reaped>>
    /\ UNCHANGED <<regvars, fsvars, pipevars>>

\* Value sys_exit stores into PCB.exit_code (line 88).
exit_code_stored(code) == code

\* Lines 86-88: take the caller's lock, mark ZOMBIE, store the code.
sys_exit_86(p) ==
    /\ OnCore(p)
    /\ pc[p] = "exit_86"
    /\ lock[p] = Free
    /\ lock' = [lock EXCEPT ![p] = p]
    /\ state' = [state EXCEPT ![p] = "ZOMBIE"]
    /\ exit_code' = [exit_code EXCEPT ![p] = exit_code_stored(call[p].code)]
    /\ pc' = [pc EXCEPT ![p] = IF parent[p] # NoParent THEN "exit_93"
                                                        ELSE "exit_96"]
    /\ UNCHANGED <<parent, alive, zombie, exit, call, pid_sel, new_pid, ret,
                   umem, TASK_QUEUE, running, cores, next_pid, halted, reaped>>
    /\ UNCHANGED <<regvars, fsvars, pipevars>>

\* Variant: go on to turn_into_zombie without taking the parent's lock.
sys_exit_93_nolock(p) ==
    /\ OnCore(p)
    /\ pc[p] = "exit_93"
    /\ pc' = [pc EXCEPT ![p] = "exit_94"]
    /\ UNCHANGED <<state, exit_code, parent, alive, zombie, lock, exit, call,
                   pid_sel, new_pid, ret, umem, TASK_QUEUE, running, cores,
                   next_pid, halted, reaped>>
    /\ UNCHANGED <<regvars, fsvars, pipevars>>

\* Line 93: take the parent's lock.
sys_exit_93(p) ==
    /\ OnCore(p)
    /\ pc[p] = "exit_93"
    /\ lock[parent[p]] = Free
    /\ lock' = [lock EXCEPT ![parent[p]] = p]
    /\ pc' = [pc EXCEPT ![p] = "exit_94"]
    /\ UNCHANGED <<state, exit_code, parent, alive, zombie, exit, call,
                   pid_sel, new_pid, ret, umem, TASK_QUEUE, running, cores,
                   next_pid, halted, reaped>>
    /\ UNCHANGED <<regvars, fsvars, pipevars>>

\* Lines 94-95: turn_into_zombie on the parent's children, then the guard x
\* goes out of scope and the parent's lock is released.
sys_exit_94(p) ==
    /\ OnCore(p)
    /\ pc[p] = "exit_94"
    /\ LET q == parent[p]
           ch == turn_into_zombie([alive |-> alive[q], zombie |-> zombie[q]], p)
       IN /\ alive' = [alive EXCEPT ![q] = ch.alive]
          /\ zombie' = [zombie EXCEPT ![q] = ch.zombie]
          /\ lock' = [lock EXCEPT ![q] = Free]
    /\ pc' = [pc EXCEPT ![p] = "exit_99"]
    /\ UNCHANGED <<state, exit_code, parent, exit, call, pid_sel, new_pid,
                   ret, umem, TASK_QUEUE, running, cores, next_pid, halted,
                   reaped>>
    /\ UNCHANGED <<regvars, fsvars, pipevars>>

\* Line 96: no parent, shutdown() powers the machine off and never returns.
sys_exit_96(p) ==
    /\ OnCore(p)
    /\ pc[p] = "exit_96"
    /\ halted' = TRUE
    /\ pc' = [pc EXCEPT ![p] = "halt"]
    /\ UNCHANGED <<state, exit_code, parent, alive, zombie, lock, exit, call,
                   pid_sel, new_pid, ret, umem, TASK_QUEUE, running, cores,
                   next_pid, reaped>>
    /\ UNCHANGED <<regvars, fsvars, pipevars>>

\* Variant: sys_exit returns without setting the exit flag.
sys_exit_99_noflag(p) ==
    /\ OnCore(p)
    /\ pc[p] = "exit_99"
    /\ ret' = [ret EXCEPT ![p] = 0]
    /\ lock' = [lock EXCEPT ![p] = Free]
    /\ pc' = [pc EXCEPT ![p] = "sysret"]
    /\ UNCHANGED <<state, exit_code, parent, alive, zombie, exit, call,
                   pid_sel, new_pid, umem, TASK_QUEUE, running, cores,
                   next_pid, halted, reaped>>
    /\ UNCHANGED <<regvars, fsvars, pipevars>>

\* Lines 99-100: set the exit flag, return 0; the guard proc is dropped.
sys_exit_99(p) ==
    /\ OnCore(p)
    /\ pc[p] = "exit_99"
    /\ exit' = [exit EXCEPT ![p] = TRUE]
    /\ ret' = [ret EXCEPT ![p] = 0]
    /\ lock' = [lock EXCEPT ![p] = Free]
    /\ pc' = [pc EXCEPT ![p] = "sysret"]
    /\ UNCHANGED <<state, exit_code, parent, alive, zombie, call, pid_sel,
                   new_pid, umem, TASK_QUEUE, running, cores, next_pid, halted,
                   reaped>>
    /\ UNCHANGED <<regvars, fsvars, pipevars>>

\* ----------------------------------------------------------- sys_clone
\* The process traps into sys_clone; the allocator is capped at cap pids.
trap_clone(p, cap) ==
    /\ OnCore(p)
    /\ pc[p] = "user"
    /\ next_pid < cap
    /\ pc' = [pc EXCEPT ![p] = "clone_113"]
    /\ call' = [call EXCEPT ![p] = [NoCall EXCEPT !.nr = "clone"]]
    /\ UNCHANGED <<state, exit_code, parent, alive, zombie, lock, exit,
                   pid_sel, new_pid, ret, umem, TASK_QUEUE, running, cores,
                   next_pid, halted, reaped>>
    /\ UNCHANGED <<regvars, fsvars, pipevars>>

\* The process traps into sys_clone(flags, stack, ptid, tls, ctid); the
\* allocator is capped at cap pids, those of the clones that have trapped
\* on another core and not yet allocated included.
trap_clone_args(p, cap, flags, stack, tls) ==
    /\ OnCore(p)
    /\ pc[p] = "user"
    /\ next_pid + Cardinality({q \in Pids : pc[q] = "clone_113"}) < cap
    /\ pc' = [pc EXCEPT ![p] = "clone_113"]
    /\ call' = [call EXCEPT ![p] = [NoCall EXCEPT !.nr = "clone",
                                       !.flags = flags, !.stack = stack,
                                       !.tls = tls]]
    /\ UNCHANGED <<state, exit_code, parent, alive, zombie, lock, exit,
                   pid_sel, new_pid, ret, umem, TASK_QUEUE, running, cores,
                   next_pid, halted, reaped>>
    /\ UNCHANGED <<regvars, fsvars, pipevars>>

\* Bit k of the u32 n.
Bit(n, k) == (n \div (2 ^ k)) % 2

\* The bits CloneFlags defines (lines 45-79).
CloneFlagBits == 7 .. 24

\* Line 117: CloneFlags::from_bits(flags as u32 & (!0x3f)) is Some exactly
\* when no bit outside the defined ones is set above bit 5.
from_bits_is_some(flags) ==
    \A k \in 6 .. 30 : Bit(flags, k) = 1 => k \in CloneFlagBits

\* flags.contains(the flag of bit k).
contains(flags, k) == Bit(flags, k) = 1

\* Lines 113-117: take the caller's lock, allocate the child's pid and
\* decode the flags; unwrap() panics on an undefined flag bit.
sys_clone_113(p) ==
    /\ OnCore(p)
    /\ pc[p] = "clone_113"
    /\ lock[p] = Free
    /\ lock' = [lock EXCEPT ![p] = p]
    /\ new_pid' = [new_pid EXCEPT ![p] = alloc_pid]
    /\ next_pid' = next_pid + 1
    /\ pc' = [pc EXCEPT ![p] = IF from_bits_is_some(call[p].flags)
                               THEN "clone_120" ELSE "panic"]
    /\ UNCHANGED <<state, exit_code, parent, alive, zombie, exit, call,
                   pid_sel, ret, umem, TASK_QUEUE, running, cores, halted,
                   reaped>>
    /\ UNCHANGED <<regvars, fsvars, pipevars>>

\* Line 161: pcb.children.alive.insert(new_pid, new_proc).
children_insert(ch, n) == [alive |-> ch.alive \cup {n}, zombie |-> ch.zombie]

\* Line 122: new_pcb.fd_manager = pcb.fd_manager.clone(), the clone of an
\* Arc: the child refers to the caller's FdManager, whatever the flags; the
\* FdManager that PCB::new made for the child is dropped.
fd_manager_clone(refs, tables, p, n) ==
    [refs |-> [refs EXCEPT ![n] = refs[p]], tables |-> tables]

\* Lines 137 and 147-149: the child's x[2] is the caller's unless stack # 0.
child_x2(stack, x2) == IF stack # 0 THEN stack ELSE x2

\* Variant: tls is stored whatever the flags.
child_x4_always(flags, tls, x4) == tls

\* Lines 137 and 150-152: the child's x[4] is the caller's unless
\* CLONE_SETTLS is given.
child_x4(flags, tls, x4) == IF contains(flags, CLONE_SETTLS) THEN tls ELSE x4

\* Lines 120-161: build the child's PCB (READY, parent = caller, the
\* caller's FdManager, a copy of the caller's trap frame with a0 = 0, its
\* kernel stack) and insert it into the caller's alive map.
sys_clone_120(p) ==
    /\ OnCore(p)
    /\ pc[p] = "clone_120"
    /\ LET n == new_pid[p]
           ch == children_insert([alive |-> alive[p], zombie |-> zombie[p]], n)
           fdm == fd_manager_clone(fd_manager, fd_array, p, n)
       IN /\ state' = [state EXCEPT ![n] = "READY"]
          /\ parent' = [parent EXCEPT ![n] = p]
          /\ fd_manager' = fdm.refs
          /\ fd_array' = fdm.tables
          /\ ret' = [ret EXCEPT ![n] = 0]
          /\ trapframe' = [trapframe EXCEPT ![n] =
                [x2 |-> child_x2(call[p].stack, trapframe[p].x2),
                 x4 |-> child_x4(call[p].flags, call[p].tls, trapframe[p].x4),
                 kernel_sp |-> kernel_stack(n).hi]]
          /\ kstack' = [kstack EXCEPT ![n] = kernel_stack(n)]
          /\ alive' = [alive EXCEPT ![p] = ch.alive]
          /\ zombie' = [zombie EXCEPT ![p] = ch.zombie]
    /\ pc' = [pc EXCEPT ![p] = "clone_163"]
    /\ UNCHANGED <<exit_code, lock, exit, call, pid_sel, new_pid, umem,
                   TASK_QUEUE, running, cores, next_pid, halted, reaped,
                   open_files, file, global_dentry_cache, cwd, inode_sel, created, pipevars>>

\* Lines 163-166: spawn the child's user_loop, schedule it (push on the
\* ready queue), detach, return new_pid; the guard pcb is dropped.
sys_clone_163(p) ==
    /\ OnCore(p)
    /\ pc[p] = "clone_163"
    /\ TASK_QUEUE' = Append(TASK_QUEUE, new_pid[p])
    /\ pc' = [pc EXCEPT ![p] = "sysret", ![new_pid[p]] = "user"]
    /\ ret' = [ret EXCEPT ![p] = new_pid[p]]
    /\ new_pid' = [new_pid EXCEPT ![p] = 0]
    /\ lock' = [lock EXCEPT ![p] = Free]
    /\ UNCHANGED <<state, exit_code, parent, alive, zombie, exit, call,
                   pid_sel, umem, running, cores, next_pid, halted, reaped>>
    /\ UNCHANGED <<regvars, fsvars, pipevars>>

\* --------------------------------------------------------- sys_waitpid
\* The process traps into sys_waitpid(pid, status, options).
trap_waitpid(p, target, status, options) ==
    /\ OnCore(p)
    /\ pc[p] = "user"
    /\ pc' = [pc EXCEPT ![p] = "wait_244"]
    /\ call' = [call EXCEPT ![p] = [NoCall EXCEPT !.nr = "waitpid",
                                       !.pid = target, !.status = status,
                                       !.options = options]]
    /\ UNCHANGED <<state, exit_code, parent, alive, zombie, lock, exit,
                   pid_sel, new_pid, ret, umem, TASK_QUEUE, running, cores,
                   next_pid, halted, reaped>>
    /\ UNCHANGED <<regvars, fsvars, pipevars>>

\* Variant: 0 whatever the options.
no_children_result_zero(options) == 0

\* Lines 249-254: the result when the caller has no child at all.
no_children_result(options) == IF options > 0 THEN 0 ELSE -1

\* Variant: the options test is missing, every call with no zombie yields.
nonblocking_never(options) == FALSE

\* Lines 262-264: inside the wait loop a non-blocking call gives up with 0.
nonblocking(options) == options > 0

\* Lines 270-273 and 284-287: the status cell after the reap.
status_write(status, old, code) ==
    IF status # 0 THEN StatusWord(code) ELSE old

\* Variant: the entry stays in the map.
zombie_remove_keep(z, pid) == z

\* Lines 278 and 288: remove the reaped entry from the zombie map.
zombie_remove(z, pid) == z \ {pid}

\* Line 279: waitpid(-1) returns the selected pid.
any_child_result(pid) == pid

\* Line 293: the result of the specific-pid branch after a reap.
specific_result(pid) == 0

\* A return from sys_waitpid: the result goes to a0 and the guard pcb_lock
\* of line 244 is dropped, which stores "unlocked" whoever holds the lock.
waitpid_return(p, v) ==
    /\ ret' = [ret EXCEPT ![p] = v]
    /\ pc' = [pc EXCEPT ![p] = "sysret"]
    /\ call' = call
    /\ pid_sel' = [pid_sel EXCEPT ![p] = 0]
    /\ lock' = [lock EXCEPT ![p] = Free]

\* Lines 244-255: take the caller's lock; with no child at all return at
\* once, else enter the any-child loop or the specific-pid branch.
sys_waitpid_244(p) ==
    /\ OnCore(p)
    /\ pc[p] = "wait_244"
    /\ lock[p] = Free
    /\ IF Cardinality(alive[p]) + Cardinality(zombie[p]) = 0
       THEN waitpid_return(p, no_children_result(call[p].options))
       ELSE /\ lock' = [lock EXCEPT ![p] = p]
            /\ pc' = [pc EXCEPT ![p] = IF call[p].pid = -1 THEN "wait_259"
                                                            ELSE "wait_282"]
            /\ UNCHANGED <<ret, call, pid_sel>>
    /\ UNCHANGED <<state, exit_code, parent, alive, zombie, exit, new_pid,
                   umem, TASK_QUEUE, running, cores, next_pid, halted, reaped>>
    /\ UNCHANGED <<regvars, fsvars, pipevars>>

\* Variant: the wait loop is entered with the caller's lock still held.
sys_waitpid_259_held(p) ==
    /\ OnCore(p)
    /\ pc[p] = "wait_259"
    /\ pc' = [pc EXCEPT ![p] = "wait_261"]
    /\ UNCHANGED <<state, exit_code, parent, alive, zombie, lock, exit, call,
                   pid_sel, new_pid, ret, umem, TASK_QUEUE, running, cores,
                   next_pid, halted, reaped>>
    /\ UNCHANGED <<regvars, fsvars, pipevars>>

\* Line 259: force_unlock of the caller's lock before the wait loop.
sys_waitpid_259(p) ==
    /\ OnCore(p)
    /\ pc[p] = "wait_259"
    /\ lock' = [lock EXCEPT ![p] = Free]
    /\ pc' = [pc EXCEPT ![p] = "wait_261"]
    /\ UNCHANGED <<state, exit_code, parent, alive, zombie, exit, call,
                   pid_sel, new_pid, ret, umem, TASK_QUEUE, running, cores,
                   next_pid, halted, reaped>>
    /\ UNCHANGED <<regvars, fsvars, pipevars>>

\* Lines 261-266: one test of the wait loop. Zombie map empty: a
\* non-blocking call returns 0, a blocking one yields and tests again when
\* resumed. Zombie map non-empty: leave the loop.
sys_waitpid_261(p) ==
    /\ OnCore(p)
    /\ pc[p] = "wait_261"
    /\ IF zombie[p] = {}
       THEN IF nonblocking(call[p].options)
            THEN /\ waitpid_return(p, 0)
                 /\ UNCHANGED <<TASK_QUEUE, running>>
            ELSE /\ YieldFuture(p)
                 /\ UNCHANGED <<ret, pc, call, pid_sel, lock>>
       ELSE /\ pc' = [pc EXCEPT ![p] = "wait_268"]
            /\ UNCHANGED <<ret, call, pid_sel, lock, TASK_QUEUE, running>>
    /\ UNCHANGED <<state, exit_code, parent, alive, zombie, exit, new_pid,
                   umem, cores, next_pid, halted, reaped>>
    /\ UNCHANGED <<regvars, fsvars, pipevars>>

\* Line 268: take the caller's lock again.
sys_waitpid_268(p) ==
    /\ OnCore(p)
    /\ pc[p] = "wait_268"
    /\ lock[p] = Free
    /\ lock' = [lock EXCEPT ![p] = p]
    /\ pc' = [pc EXCEPT ![p] = "wait_269"]
    /\ UNCHANGED <<state, exit_code, parent, alive, zombie, exit, call,
                   pid_sel, new_pid, ret, umem, TASK_QUEUE, running, cores,
                   next_pid, halted, reaped>>
    /\ UNCHANGED <<regvars, fsvars, pipevars>>

\* Lines 269-276: select the first zombie, write the status word under the
\* zombie's lock when the pointer is non-null, then the guard of line 268
\* goes out of scope. first_key_value().unwrap() panics on an empty map.
sys_waitpid_269(p) ==
    /\ OnCore(p)
    /\ pc[p] = "wait_269"
    /\ IF zombie[p] = {}
       THEN /\ pc' = [pc EXCEPT ![p] = "panic"]
            /\ UNCHANGED <<pid_sel, umem, lock>>
       ELSE LET z == first_key_value(zombie[p])
            IN /\ call[p].status # 0 => lock[z] = Free
               /\ pid_sel' = [pid_sel EXCEPT ![p] = z]
               /\ umem' = [umem EXCEPT ![p] =
                              status_write(call[p].status, @, exit_code[z])]
               /\ lock' = [lock EXCEPT ![p] = Free]
               /\ pc' = [pc EXCEPT ![p] = "wait_277"]
    /\ UNCHANGED <<state, exit_code, parent, alive, zombie, exit, call,
                   new_pid, ret, TASK_QUEUE, running, cores, next_pid, halted,
                   reaped>>
    /\ UNCHANGED <<regvars, fsvars, pipevars>>

\* Lines 277-279: remove the selected entry and return its pid.
sys_waitpid_277(p) ==
    /\ OnCore(p)
    /\ pc[p] = "wait_277"
    /\ zombie' = [zombie EXCEPT ![p] = zombie_remove(@, pid_sel[p])]
    /\ reaped' = [reaped EXCEPT ![p] = @ \cup {pid_sel[p]}]
    /\ waitpid_return(p, any_child_result(pid_sel[p]))
    /\ UNCHANGED <<state, exit_code, parent, alive, exit, new_pid, umem,
                   TASK_QUEUE, running, cores, next_pid, halted>>
    /\ UNCHANGED <<regvars, fsvars, pipevars>>

\* Lines 282-293: the specific-pid branch. A zombie of that pid is reaped
\* (status written under the zombie's lock) and the call returns the value
\* of line 293; otherwise it returns -1.
sys_waitpid_282(p) ==
    /\ OnCore(p)
    /\ pc[p] = "wait_282"
    /\ IF call[p].pid \in zombie[p]
       THEN LET z == call[p].pid
            IN /\ call[p].status # 0 => lock[z] = Free
               /\ umem' = [umem EXCEPT ![p] =
                              status_write(call[p].status, @, exit_code[z])]
               /\ zombie' = [zombie EXCEPT ![p] = zombie_remove(@, z)]
               /\ reaped' = [reaped EXCEPT ![p] = @ \cup {z}]
               /\ waitpid_return(p, specific_result(z))
       ELSE /\ waitpid_return(p, -1)
            /\ UNCHANGED <<umem, zombie, reaped>>
    /\ UNCHANGED <<state, exit_code, parent, alive, exit, new_pid,
                   TASK_QUEUE, running, cores, next_pid, halted>>
    /\ UNCHANGED <<regvars, fsvars, pipevars>>

Next ==
    \/ run
    \/ \E p \in Pids : user_loop_exit(p)
    \/ \E p \in Pids : user_loop_next(p)
    \/ \E p \in Pids, code \in ExitCodes : trap_exit(p, code)
    \/ \E p \in Pids : sys_exit_86(p)
    \/ \E p \in Pids : sys_exit_93(p)
    \/ \E p \in Pids : sys_exit_94(p)
    \/ \E p \in Pids : sys_exit_96(p)
    \/ \E p \in Pids : sys_exit_99(p)
    \/ \E p \in Pids : trap_clone(p, MaxProcs)
    \/ \E p \in Pids : sys_clone_113(p)
    \/ \E p \in Pids : sys_clone_120(p)
    \/ \E p \in Pids : sys_clone_163(p)
    \/ \E p \in Pids, t \in WaitTargets, s \in StatusPtrs, o \in WaitOptions :
          trap_waitpid(p, t, s, o)
    \/ \E p \in Pids : sys_waitpid_244(p)
    \/ \E p \in Pids : sys_waitpid_259(p)
    \/ \E p \in Pids : sys_waitpid_261(p)
    \/ \E p \in Pids : sys_waitpid_268(p)
    \/ \E p \in Pids : sys_waitpid_269(p)
    \/ \E p \in Pids : sys_waitpid_277(p)
    \/ \E p \in Pids : sys_waitpid_282(p)

Spec == Init /\ [][Next]_vars

\* ------------------------------------------------- fair specification
\* The same handlers driven by fewer inputs (exit code 0, waitpid(-1) with
\* a status pointer, blocking or not) over more processes.
LiveNext ==
    \/ run
    \/ \E p \in Pids : user_loop_exit(p)
    \/ \E p \in Pids : user_loop_next(p)
    \/ \E p \in Pids : trap_exit(p, 0)
    \/ \E p \in Pids : sys_exit_86(p)
    \/ \E p \in Pids : sys_exit_93(p)
    \/ \E p \in Pids : sys_exit_94(p)
    \/ \E p \in Pids : sys_exit_96(p)
    \/ \E p \in Pids : sys_exit_99(p)
    \/ \E p \in Pids : trap_clone(p, LiveProcs)
    \/ \E p \in Pids : sys_clone_113(p)
    \/ \E p \in Pids : sys_clone_120(p)
    \/ \E p \in Pids : sys_clone_163(p)
    \/ \E p \in Pids, o \in WaitOptions : trap_waitpid(p, -1, 1, o)
    \/ \E p \in Pids : sys_waitpid_244(p)
    \/ \E p \in Pids : sys_waitpid_259(p)
    \/ \E p \in Pids : sys_waitpid_261(p)
    \/ \E p \in Pids : sys_waitpid_268(p)
    \/ \E p \in Pids : sys_waitpid_269(p)
    \/ \E p \in Pids : sys_waitpid_277(p)

\* A task gives up the core by exiting or by yielding in the wait loop.
Leave(p) ==
    \/ trap_exit(p, 0)
    \/ sys_waitpid_261(p) /\ p \notin running'

\* The run loop and the core keep going (one core: only the task on the
\* core, or the run loop, has a step to take), and no task keeps the core
\* for ever: cooperative scheduling is fair only among tasks that yield or
\* finish.
Fairness ==
    /\ WF_vars(LiveNext)
    /\ \A p \in Pids : SF_vars(Leave(p))

FairSpec == Init /\ [][LiveNext]_vars /\ Fairness

\* ------------------------------------------------ clone on two cores
\* Number of pids under the clone specification.
CloneProcs == 4

\* flags of sys_clone: none, CLONE_FILES, CLONE_SETTLS | SIGCHLD (17, below
\* bit 6), and the undefined bit 6.
CloneFlagInputs == {0, 2 ^ CLONE_FILES, 2 ^ CLONE_SETTLS + 17, 64}
\* stack and tls of sys_clone: 0 or an address.
StackArgs == {0, 8}
TlsArgs == {0, 9}

\* sys_clone with every argument, driven by two cores.
CloneNext ==
    \/ run
    \/ \E p \in Pids : user_loop_next(p)
    \/ \E p \in Pids, f \in CloneFlagInputs, st \in StackArgs, t \in TlsArgs :
          trap_clone_args(p, CloneProcs, f, st, t)
    \/ \E p \in Pids : sys_clone_113(p)
    \/ \E p \in Pids : sys_clone_120(p)
    \/ \E p \in Pids : sys_clone_163(p)

CloneSpec == SmpInit /\ [][CloneNext]_vars

\* ------------------------------------------------------------ sys_exec
\* What the lookup and the parse of lines 201-204 find for the given path:
\* a loadable image, a cached file that is no ELF image, or no entry.
ExecOutcomes == {"elf", "bad_elf", "missing"}

\* The process traps into sys_exec(path, argv).
trap_exec(p) ==
    /\ OnCore(p)
    /\ pc[p] = "user"
    /\ pc' = [pc EXCEPT ![p] = "exec_170"]
    /\ call' = [call EXCEPT ![p] = [NoCall EXCEPT !.nr = "exec"]]
    /\ UNCHANGED <<state, exit_code, parent, alive, zombie, lock, exit,
                   pid_sel, new_pid, ret, umem, TASK_QUEUE, running, cores,
                   next_pid, halted, reaped>>
    /\ UNCHANGED <<regvars, fsvars, pipevars>>

\* Line 170: take the caller's lock; the guard pcb lives to the end of
\* sys_exec.
sys_exec_170(p) ==
    /\ OnCore(p)
    /\ pc[p] = "exec_170"
    /\ lock[p] = Free
    /\ lock' = [lock EXCEPT ![p] = p]
    /\ pc' = [pc EXCEPT ![p] = "exec_201"]
    /\ UNCHANGED <<state, exit_code, parent, alive, zombie, exit, call,
                   pid_sel, new_pid, ret, umem, TASK_QUEUE, running, cores,
                   next_pid, halted, reaped>>
    /\ UNCHANGED <<regvars, fsvars, pipevars>>

\* Lines 201-216: look the path up and parse the image. An image goes to
\* exec_from_elf (line 205); a parse error (line 208) or a missing entry
\* (line 214) calls self.sys_exit(-1), with the guard of line 170 alive.
sys_exec_201(p, found) ==
    /\ OnCore(p)
    /\ pc[p] = "exec_201"
    /\ IF found = "elf"
       THEN /\ pc' = [pc EXCEPT ![p] = "exec_205"]
            /\ call' = call
       ELSE /\ pc' = [pc EXCEPT ![p] = "exit_86"]
            /\ call' = [call EXCEPT ![p].code = -1]
    /\ UNCHANGED <<state, exit_code, parent, alive, zombie, lock, exit,
                   pid_sel, new_pid, ret, umem, TASK_QUEUE, running, cores,
                   next_pid, halted, reaped>>
    /\ UNCHANGED <<regvars, fsvars, pipevars>>

\* exec_from_elf: the image is replaced and sys_exec returns; the guard of
\* line 170 is dropped.
exec_from_elf(p) ==
    /\ OnCore(p)
    /\ pc[p] = "exec_205"
    /\ ret' = [ret EXCEPT ![p] = 0]
    /\ lock' = [lock EXCEPT ![p] = Free]
    /\ pc' = [pc EXCEPT ![p] = "sysret"]
    /\ UNCHANGED <<state, exit_code, parent, alive, zombie, exit, call,
                   pid_sel, new_pid, umem, TASK_QUEUE, running, cores,
                   next_pid, halted, reaped>>
    /\ UNCHANGED <<regvars, fsvars, pipevars>>

\* The process-tree handlers together with sys_exec.
ExecNext ==
    \/ Next
    \/ \E p \in Pids : trap_exec(p)
    \/ \E p \in Pids : sys_exec_170(p)
    \/ \E p \in Pids, found \in ExecOutcomes : sys_exec_201(p, found)
    \/ \E p \in Pids : exec_from_elf(p)

ExecSpec == Init /\ [][ExecNext]_vars

\* ------------------------------------------ file descriptors (fs.rs)
\* OpenFlags::RDONLY, WRONLY and RDWR.
RDONLY == 0
WRONLY == 1
RDWR == 2

\* OpenFlags::CREATE.
CREATE == 64

\* Arguments of the fd syscalls: an fd (isize; -1 and MaxFds are out of
\* range), open flags, a byte count, the bytes to write ("AB" and "C").
FdArgs == -1 .. MaxFds
OpenFlagArgs == {RDONLY, WRONLY, RDWR, CREATE}
LenArgs == {1, 2}
WriteData == {<<65, 66>>, <<67>>}
\* new_fd of sys_dup3: at or above the three standard descriptors.
Dup3Targets == 3 .. (MaxFds - 1)

\* The caller's fd_array.
fds(p) == fd_array[fd_manager[p]]

\* fd as usize < fd_manager.len(): a negative isize is a usize above any
\* length.
in_range(arr, fd) == fd >= 0 /\ fd < Len(arr)

\* fd_array[fd]: the vector is indexed from 0.
slot(arr, fd) == arr[fd + 1]

\* The OpenFile of an id.
open_file(id) ==
    IF id = NullFile THEN OpenFile(0, "null", 0) ELSE open_files[id]

\* A descriptor that is neither readable nor writable.
closed(d) == ~d.readable /\ ~d.writable

\* An fd syscall is over: result in a0, back in user_loop.
fd_return(p, c, v) ==
    /\ ret' = [ret EXCEPT ![p] = v]
    /\ call' = [call EXCEPT ![p] = c]
    /\ pc' = [pc EXCEPT ![p] = "sysret"]
    /\ UNCHANGED <<state, exit_code, parent, alive, zombie, lock, exit,
                   pid_sel, new_pid, umem, TASK_QUEUE, running, cores,
                   next_pid, halted, reaped, regvars, fd_manager>>

\* fs.rs lines 103-108: the access bits of a new descriptor,
\* ((flags ^ A) | (flags ^ RDWR)) != 0.
access(flags, a) == (flags # a) \/ (flags # RDWR)

\* What a path argument may be: a name, alone or after "/" or "./".
Names == {"a", "null", "text.txt"}
Strings == {pre \o n : pre \in {"", "/", "./"}, n \in Names}

\* str::starts_with and str::strip_prefix(..).unwrap().
starts_with(s, pre) == \E t \in Strings : s = pre \o t
strip_prefix(s, pre) == CHOOSE t \in Strings : s = pre \o t

\* Lines 63-73 and 708-718: rel_path, the path without a leading "/" or "./".
rel_path(path) ==
    IF starts_with(path, "/") THEN strip_prefix(path, "/")
    ELSE IF starts_with(path, "./") THEN strip_prefix(path, "./")
    ELSE path

\* Lines 63-67 of sys_openat: start_dir_path, "/" for an absolute path and
\* the caller's cwd for a relative one.
start_dir_path(dir, path) == IF starts_with(path, "/") THEN "/" ELSE dir

\* Line 87 of sys_openat: abs_path = format!("{}{}", start_dir_path, rel_path).
abs_path(dir, path) == start_dir_path(dir, path) \o rel_path(path)

\* GlobalDentryCache::get (task/mod.rs 174-180): the inode stored for the
\* path, or None.
GlobalDentryCache_get(table, path) ==
    IF path \in DOMAIN table THEN table[path] ELSE NoInode

\* Variant: the table keeps what it had and the caller's inode is returned.
GlobalDentryCache_insert_lost(table, path, inode) ==
    [table |-> table, inode |-> inode]

\* GlobalDentryCache::insert (task/mod.rs 181-186): the inode is stored for
\* the path, replacing what was stored; the result is the handle now stored.
GlobalDentryCache_insert(table, path, inode) ==
    LET t == [k \in DOMAIN table \cup {path} |->
                 IF k = path THEN inode ELSE table[k]]
    IN [table |-> t, inode |-> t[path]]

\* The file name of an inode (file_name()): the name of a RegFileINode.
file_name(inode) == file[inode].name

\* Indices (from 0) of the slots whose OpenFile has the given inode.
same_inode(arr, inode) ==
    {i \in 0 .. (Len(arr) - 1) : open_file(slot(arr, i).open_file).inode = inode}

\* Lines 89-171 of sys_openat, for the call c and the result inode of the
\* lookup. Some: -1 for a file named "null"; else a new OpenFile on that
\* inode replaces the first slot holding the inode, or is appended. None: a
\* new inode is made and inserted into the cache and a new OpenFile on it
\* is appended.
openat_lookup_done(p, c, inode) ==
    LET arr == fds(p)
        id == Len(open_files) + 1
        d == FileDescriptor(id, access(c.flags, RDONLY), access(c.flags, WRONLY))
        hit == same_inode(arr, inode)
        new_inode == RegFileINode(Cardinality(DOMAIN file) + 1)
    IN IF inode # NoInode
       THEN IF file_name(inode) = "null"
            THEN /\ fd_return(p, c, -1)
                 /\ created' = [created EXCEPT ![p] = NoCreated]
                 /\ UNCHANGED <<fd_array, open_files, file,
                                global_dentry_cache>>
            ELSE /\ open_files' = Append(open_files, OpenFile(0, inode, 0))
                 /\ created' = [created EXCEPT ![p] = NoCreated]
                 /\ IF hit # {}
                    THEN LET i == first_key_value(hit)
                         IN /\ fd_array' = [fd_array EXCEPT
                                 ![fd_manager[p]][i + 1] = d]
                            /\ fd_return(p, c, i)
                    ELSE /\ fd_array' = [fd_array EXCEPT
                                 ![fd_manager[p]] = Append(arr, d)]
                         /\ fd_return(p, c, Len(arr))
                 /\ UNCHANGED <<file, global_dentry_cache>>
       ELSE /\ global_dentry_cache' =
                  GlobalDentryCache_insert(global_dentry_cache,
                      abs_path(cwd[p], c.path), new_inode).table
            /\ file' = [k \in DOMAIN file \cup {new_inode} |->
                           IF k = new_inode
                           THEN [name |-> rel_path(c.path), len |-> 0]
                           ELSE file[k]]
            /\ open_files' = Append(open_files, OpenFile(0, new_inode, 0))
            /\ fd_array' = [fd_array EXCEPT ![fd_manager[p]] = Append(arr, d)]
            /\ created' = [created EXCEPT ![p] =
                              [path |-> c.path, flags |-> c.flags,
                               fd |-> Len(arr)]]
            /\ fd_return(p, c, Len(arr))

\* sys_openat (lines 56-172) on one core: the path is resolved, looked up in
\* the dentry cache and opened or created.
sys_openat(p, path, flags) ==
    /\ OnCore(p)
    /\ pc[p] = "user"
    /\ Len(fds(p)) < MaxFds
    /\ Len(open_files) < MaxOpenFiles
    /\ LET c == [NoCall EXCEPT !.nr = "openat", !.path = path, !.flags = flags]
       IN openat_lookup_done(p, c,
              GlobalDentryCache_get(global_dentry_cache,
                                    abs_path(cwd[p], path)))
    /\ UNCHANGED <<cwd, inode_sel>>
    /\ UNCHANGED pipevars

\* Variant: the entry is taken out of the vector.
FdManager_close_remove(arr, fd) ==
    SubSeq(arr, 1, fd) \o SubSeq(arr, fd + 2, Len(arr))

\* FdManager::close (task/mod.rs lines 141-151): a readable or writable
\* descriptor is left as it is; one that is neither gets a new OpenFile.
FdManager_close(arr, fd) ==
    IF slot(arr, fd).readable \/ slot(arr, fd).writable
    THEN arr
    ELSE [arr EXCEPT ![fd + 1].open_file = NullFile]

\* sys_close (lines 175-183).
sys_close(p, fd) ==
    /\ OnCore(p)
    /\ pc[p] = "user"
    /\ LET arr == fds(p)
           c == [NoCall EXCEPT !.nr = "close", !.fd = fd]
       IN IF ~in_range(arr, fd)
          THEN /\ fd_return(p, c, -1)
               /\ UNCHANGED fd_array
          ELSE /\ fd_array' = [fd_array EXCEPT
                                 ![fd_manager[p]] = FdManager_close(arr, fd)]
               /\ fd_return(p, c, 0)
    /\ created' = [created EXCEPT ![p] = NoCreated]
    /\ UNCHANGED <<open_files, file, global_dentry_cache, cwd, inode_sel, pipevars>>

\* Lines 477-487 of sys_dup: the index of the first slot that is neither
\* readable nor writable, else the length.
dup_new_fd(arr) ==
    LET free == {i \in 0 .. (Len(arr) - 1) : closed(slot(arr, i))}
    IN IF free # {} THEN first_key_value(free) ELSE Len(arr)

\* Lines 489-493 of sys_dup: fd_array.push of the copy, whatever new_fd is.
dup_store(arr, d, n) == Append(arr, d)

\* sys_dup (lines 460-495).
sys_dup(p, fd) ==
    /\ OnCore(p)
    /\ pc[p] = "user"
    /\ Len(fds(p)) < MaxFds
    /\ LET arr == fds(p)
           c == [NoCall EXCEPT !.nr = "dup", !.fd = fd]
       IN IF ~in_range(arr, fd) \/ closed(slot(arr, fd))
          THEN /\ fd_return(p, c, -1)
               /\ UNCHANGED fd_array
          ELSE LET n == dup_new_fd(arr)
               IN /\ fd_array' = [fd_array EXCEPT ![fd_manager[p]] =
                                     dup_store(arr, slot(arr, fd), n)]
                  /\ fd_return(p, c, n)
    /\ created' = [created EXCEPT ![p] = NoCreated]
    /\ UNCHANGED <<open_files, file, global_dentry_cache, cwd, inode_sel, pipevars>>

\* Variant: one placeholder fewer.
pad_short(arr, n) ==
    arr \o [i \in 1 .. (n - 1 - Len(arr)) |->
               FileDescriptor(NullFile, FALSE, FALSE)]

\* Lines 522-529 of sys_dup3: push placeholders until the length is n.
pad(arr, n) ==
    arr \o [i \in 1 .. (n - Len(arr)) |->
               FileDescriptor(NullFile, FALSE, FALSE)]

\* sys_dup3 (lines 499-543); flags is not read.
sys_dup3(p, fd, new_fd) ==
    /\ OnCore(p)
    /\ pc[p] = "user"
    /\ LET arr == fds(p)
           c == [NoCall EXCEPT !.nr = "dup3", !.fd = fd, !.new_fd = new_fd]
       IN IF ~in_range(arr, fd) \/ closed(slot(arr, fd))
          THEN /\ fd_return(p, c, -1)
               /\ UNCHANGED fd_array
          ELSE /\ fd_array' = [fd_array EXCEPT ![fd_manager[p]] =
                                  [pad(arr, new_fd + 1) EXCEPT
                                      ![new_fd + 1] = slot(arr, fd)]]
               /\ fd_return(p, c, new_fd)
    /\ created' = [created EXCEPT ![p] = NoCreated]
    /\ UNCHANGED <<open_files, file, global_dentry_cache, cwd, inode_sel, pipevars>>

\* Line 258 is a comment: sys_write leaves the OpenFile's offset alone.
write_offset(offset, n) == offset

\* file_size() of an inode; a terminal and a "null" file hold no data.
file_size(inode) == IF inode \in DOMAIN file THEN file[inode].len ELSE 0

\* Lines 252-257 of sys_write: the bytes are pushed onto the inode's file
\* data; only the data of regular files is kept.
file_push(f, inode, len) ==
    IF inode \in DOMAIN f THEN [f EXCEPT ![inode].len = @ + len] ELSE f

\* is_pipe() of the inode of an OpenFile.
is_pipe(id) == open_file(id).buf # 0

\* write_to_pipe: the bytes are appended to the pipe's buffer.
write_to_pipe(buffer, data) == buffer \o data

\* sys_write (lines 186-262) of the bytes data. fd 1 prints. A descriptor
\* that is writable and not readable and whose inode is a pipe takes the
\* inode's lock (line 233) and goes on to the pipe loop; else the bytes are
\* pushed onto the inode's file data.
sys_write(p, fd, data) ==
    /\ OnCore(p)
    /\ pc[p] = "user"
    /\ LET arr == fds(p)
           len == Len(data)
           c == [NoCall EXCEPT !.nr = "write", !.fd = fd, !.len = len,
                               !.data = data]
       IN IF fd = 1
          THEN /\ fd_return(p, c, len)
               /\ UNCHANGED <<file, open_files, inode_lock>>
          ELSE IF ~in_range(arr, fd) \/ ~slot(arr, fd).writable
          THEN /\ fd_return(p, c, -1)
               /\ UNCHANGED <<file, open_files, inode_lock>>
          ELSE LET id == slot(arr, fd).open_file
                   inode == open_file(id).inode
               IN IF ~slot(arr, fd).readable /\ is_pipe(id)
                  THEN /\ inode_lock[id] = Free
                       /\ Len(global_buffer_list[open_file(id).buf]) + len
                             <= MaxPipeData
                       /\ inode_lock' = [inode_lock EXCEPT ![id] = p]
                       /\ pc' = [pc EXCEPT ![p] = "write_234"]
                       /\ call' = [call EXCEPT ![p] = c]
                       /\ UNCHANGED <<state, exit_code, parent, alive, zombie,
                                      lock, exit, pid_sel, new_pid, ret, umem,
                                      TASK_QUEUE, running, cores, next_pid,
                                      halted, reaped, regvars, fd_manager,
                                      file, open_files>>
                  ELSE /\ file_size(inode) + len <= MaxFile
                       /\ file' = file_push(file, inode, len)
                       /\ open_files' = [open_files EXCEPT ![id].offset =
                                            write_offset(@, len)]
                       /\ fd_return(p, c, len)
                       /\ UNCHANGED inode_lock
    /\ created' = [created EXCEPT ![p] = NoCreated]
    /\ UNCHANGED <<fd_array, global_dentry_cache, cwd, inode_sel, global_buffer_list, avail,
                   read_i, ubuf, dents>>

\* Lines 234-238 of sys_write: every buffer goes to write_to_pipe, the call
\* returns len and the guard of line 233 is dropped.
sys_write_234(p) ==
    /\ OnCore(p)
    /\ pc[p] = "write_234"
    /\ LET id == slot(fds(p), call[p].fd).open_file
           k == open_file(id).buf
       IN /\ global_buffer_list' = [global_buffer_list EXCEPT ![k] =
                                       write_to_pipe(@, call[p].data)]
          /\ inode_lock' = [inode_lock EXCEPT ![id] = Free]
    /\ fd_return(p, call[p], call[p].len)
    /\ UNCHANGED <<fd_array, open_files, file, global_dentry_cache, cwd, inode_sel, created,
                   avail, read_i, ubuf, dents>>

\* Lines 353-375 of sys_read: the bytes from offset on, len at most.
read_bytes(offset, size, len) ==
    IF offset >= size THEN 0
    ELSE IF size - offset < len THEN size - offset ELSE len

\* sys_read (lines 278-378) of len bytes. fd 0 reads one console character
\* and returns 0; an fd out of range returns 0; readable is not tested. The
\* inode of a pipe goes on to the pipe loop with i = 0; else the bytes of
\* the file from the offset on are copied and the offset is not moved.
sys_read(p, fd, len) ==
    /\ OnCore(p)
    /\ pc[p] = "user"
    /\ LET arr == fds(p)
           c == [NoCall EXCEPT !.nr = "read", !.fd = fd, !.len = len]
       IN IF fd = 0 \/ ~in_range(arr, fd)
          THEN /\ fd_return(p, c, 0)
               /\ UNCHANGED <<avail, read_i, ubuf>>
          ELSE LET id == slot(arr, fd).open_file
                   f == open_file(id)
               IN IF is_pipe(id)
                  THEN /\ pc' = [pc EXCEPT ![p] = "read_327"]
                       /\ call' = [call EXCEPT ![p] = c]
                       /\ read_i' = [read_i EXCEPT ![p] = 0]
                       /\ ubuf' = [ubuf EXCEPT ![p] = <<>>]
                       /\ avail' = [avail EXCEPT ![p] =
                                       Len(global_buffer_list[f.buf])]
                       /\ UNCHANGED <<state, exit_code, parent, alive, zombie,
                                      lock, exit, pid_sel, new_pid, ret, umem,
                                      TASK_QUEUE, running, cores, next_pid,
                                      halted, reaped, regvars, fd_manager>>
                  ELSE /\ fd_return(p, c, read_bytes(f.offset,
                                                     file_size(f.inode), len))
                       /\ UNCHANGED <<avail, read_i, ubuf>>
    /\ created' = [created EXCEPT ![p] = NoCreated]
    /\ UNCHANGED <<fd_array, open_files, file, global_dentry_cache, cwd, inode_sel,
                   global_buffer_list, inode_lock, dents>>

\* Lines 338-342: when sys_yield() returns the byte is 0; it is stored at
\* index i and the loop goes on to i + 1.
after_yield(bytes, i) == [bytes |-> Append(bytes, 0), i |-> i + 1]

\* Variant: the guard of line 328 is still held after the statement.
temporary_guard_kept(locks, id, p) == [locks EXCEPT ![id] = p]

\* Line 328: open_file.inode.lock() is a temporary, dropped at the end of
\* the statement.
temporary_guard(locks, id, p) == [locks EXCEPT ![id] = Free]

\* Variant: the bytes are taken from the end of the data.
get_from_end(file_data, i) == file_data[Len(file_data) - i]

\* Line 330: file_data.get(i) when it is Some, the byte at index i of the
\* copy of the pipe's data.
get(file_data, i) == file_data[i + 1]

\* Lines 327-341 and 351: one turn of the loop over a pipe. With i = len
\* the call returns len. Else the inode is locked for the copy of its data;
\* a byte at index i is stored and the loop goes on; with no byte at index
\* i the task yields (sys_yield).
sys_read_327(p) ==
    /\ OnCore(p)
    /\ pc[p] = "read_327"
    /\ LET id == slot(fds(p), call[p].fd).open_file
           file_data == global_buffer_list[open_file(id).buf]
           i == read_i[p]
       IN IF i >= call[p].len
          THEN /\ fd_return(p, call[p], call[p].len)
               /\ UNCHANGED <<read_i, ubuf, inode_lock>>
          ELSE /\ inode_lock[id] = Free
               /\ inode_lock' = temporary_guard(inode_lock, id, p)
               /\ IF i < Len(file_data)
                  THEN /\ ubuf' = [ubuf EXCEPT ![p] =
                                      Append(@, get(file_data, i))]
                       /\ read_i' = [read_i EXCEPT ![p] = i + 1]
                       /\ UNCHANGED <<pc, TASK_QUEUE, running>>
                  ELSE /\ YieldFuture(p)
                       /\ pc' = [pc EXCEPT ![p] = "read_339"]
                       /\ UNCHANGED <<read_i, ubuf>>
               /\ UNCHANGED <<state, exit_code, parent, alive, zombie, lock,
                              exit, call, pid_sel, new_pid, ret, umem, cores,
                              next_pid, halted, reaped, regvars, fd_manager>>
    /\ UNCHANGED <<fd_array, open_files, file, global_dentry_cache, cwd, inode_sel, created,
                   global_buffer_list, avail, dents>>

\* Lines 339-342: the task is resumed after sys_yield().
sys_read_339(p) ==
    /\ OnCore(p)
    /\ pc[p] = "read_339"
    /\ LET r == after_yield(ubuf[p], read_i[p])
       IN /\ ubuf' = [ubuf EXCEPT ![p] = r.bytes]
          /\ read_i' = [read_i EXCEPT ![p] = r.i]
    /\ pc' = [pc EXCEPT ![p] = "read_327"]
    /\ UNCHANGED <<state, exit_code, parent, alive, zombie, lock, exit, call,
                   pid_sel, new_pid, ret, umem, TASK_QUEUE, running, cores,
                   next_pid, halted, reaped, regvars, fsvars,
                   global_buffer_list, inode_lock, avail, dents>>

\* FdManager::alloc_fd(readable, writable): a new slot with these flags at
\* the end of the table; its index is the old length.
alloc_fd(arr, r, w) == Append(arr, FileDescriptor(NullFile, r, w))

\* OpenFile::new_pipe_read and new_pipe_write: an OpenFile at offset 0 over
\* an inode of its own that refers to buffer k.
new_pipe_read(k) == OpenFile(0, "pipe", k)
new_pipe_write(k) == OpenFile(0, "pipe", k)

\* Variant: the two indices are stored in the other order.
pipe_store_swapped(read_fd, write_fd) == <<write_fd, read_fd>>

\* Lines 757 and 761: *pipe = read_fd, *pipe.add(1) = write_fd.
pipe_store(read_fd, write_fd) == <<read_fd, write_fd>>

\* sys_pipe2 (lines 738-771): two new slots, the first readable, the second
\* writable; one new empty buffer that the OpenFiles of both refer to and
\* that global_buffer_list keeps; the two indices are stored in the
\* caller's array; returns 0.
sys_pipe2(p) ==
    /\ OnCore(p)
    /\ pc[p] = "user"
    /\ Len(fds(p)) + 2 <= MaxFds
    /\ Len(global_buffer_list) < MaxPipes
    /\ LET arr == fds(p)
           read_fd == Len(arr)
           arr1 == alloc_fd(arr, TRUE, FALSE)
           write_fd == Len(arr1)
           arr2 == alloc_fd(arr1, FALSE, TRUE)
           k == Len(global_buffer_list) + 1
           id == Len(open_files) + 1
       IN /\ global_buffer_list' = Append(global_buffer_list, <<>>)
          /\ open_files' = open_files \o <<new_pipe_read(k), new_pipe_write(k)>>
          /\ fd_array' = [fd_array EXCEPT ![fd_manager[p]] =
                             [arr2 EXCEPT ![read_fd + 1].open_file = id,
                                          ![write_fd + 1].open_file = id + 1]]
          /\ ubuf' = [ubuf EXCEPT ![p] = pipe_store(read_fd, write_fd)]
    /\ fd_return(p, [NoCall EXCEPT !.nr = "pipe2"], 0)
    /\ created' = [created EXCEPT ![p] = NoCreated]
    /\ UNCHANGED <<file, global_dentry_cache, cwd, inode_sel, inode_lock, avail, read_i, dents>>

\* size_of::<Dirent>(): d_ino, d_off, d_reclen, d_type and a name of 256
\* bytes, aligned to 8.
SizeOfDirent == 280

\* What inode.lock().list() gives: Err, or Ok with the names.
Listings == {[ok |-> FALSE, entries |-> <<>>],
             [ok |-> TRUE, entries |-> <<>>],
             [ok |-> TRUE, entries |-> <<"a", "bc">>]}

\* len of sys_getdents64: shorter than a Dirent, one byte short of a
\* Dirent with the name ".", exactly that, and room for more.
DentLens == {0, SizeOfDirent + 1, SizeOfDirent + 2, 2 * SizeOfDirent + 4}

\* Lines 398-405: the entries of the listing, or the single entry "." when
\* the listing fails.
list_or_dot(listing) == IF listing.ok THEN listing.entries ELSE <<".">>

\* Lines 410-453: the entries are stored in order, each taking
\* size_of::<Dirent>() + name length + 1 bytes, until one does not fit into
\* len; the result is the entries stored and the bytes they take.
dirent_fill(entries, len) ==
    LET written[n \in 0 .. Len(entries)] ==
            IF n = 0 THEN 0
            ELSE written[n - 1] + SizeOfDirent + Len(entries[n]) + 1
        fit == {n \in 0 .. Len(entries) : written[n] <= len}
        n == CHOOSE k \in fit : \A m \in fit : m <= k
    IN [entries |-> SubSeq(entries, 1, n), bytes_written |-> written[n]]

\* sys_getdents64 (lines 382-456). fd_array[fd] panics on an fd out of
\* range. len - size_of::<Dirent>() (line 389) overflows when len is
\* shorter than a Dirent: a panic in a build with overflow checks, a wrapped
\* offset otherwise. Then the entries are stored and their size returned.
sys_getdents64(p, fd, len, listing, overflow_checks) ==
    /\ OnCore(p)
    /\ pc[p] = "user"
    /\ LET c == [NoCall EXCEPT !.nr = "getdents", !.fd = fd, !.len = len,
                               !.list_ok = listing.ok]
           out == dirent_fill(list_or_dot(listing), len)
       IN IF ~in_range(fds(p), fd) \/ (len < SizeOfDirent /\ overflow_checks)
          THEN /\ pc' = [pc EXCEPT ![p] = "panic"]
               /\ call' = [call EXCEPT ![p] = c]
               /\ UNCHANGED <<state, exit_code, parent, alive, zombie, lock,
                              exit, pid_sel, new_pid, ret, umem, TASK_QUEUE,
                              running, cores, next_pid, halted, reaped,
                              regvars, fd_manager, dents>>
          ELSE /\ dents' = [dents EXCEPT ![p] = out.entries]
               /\ fd_return(p, c, out.bytes_written)
    /\ created' = [created EXCEPT ![p] = NoCreated]
    /\ UNCHANGED <<fd_array, open_files, file, global_dentry_cache, cwd, inode_sel,
                   global_buffer_list, inode_lock, avail, read_i, ubuf>>

\* sys_mkdirat (lines 547-603): 0 for an fd out of range (line 554); else
\* the path is walked from the inode of fd, a directory that is not found
\* is built and dropped (line 593 is a comment), and the result is 0.
sys_mkdirat(p, fd) ==
    /\ OnCore(p)
    /\ pc[p] = "user"
    /\ fd_return(p, [NoCall EXCEPT !.nr = "mkdir", !.fd = fd], 0)
    /\ created' = [created EXCEPT ![p] = NoCreated]
    /\ UNCHANGED <<fd_array, open_files, file, global_dentry_cache, cwd, inode_sel, pipevars>>

\* sys_fstat (lines 620-674): -1 for an fd out of range or a descriptor
\* that is not readable; else a default Stat is stored and the result is 0.
sys_fstat(p, fd) ==
    /\ OnCore(p)
    /\ pc[p] = "user"
    /\ LET c == [NoCall EXCEPT !.nr = "fstat", !.fd = fd]
       IN IF ~in_range(fds(p), fd) \/ ~slot(fds(p), fd).readable
          THEN fd_return(p, c, -1)
          ELSE fd_return(p, c, 0)
    /\ created' = [created EXCEPT ![p] = NoCreated]
    /\ UNCHANGED <<fd_array, open_files, file, global_dentry_cache, cwd, inode_sel, pipevars>>

\* Lines 89-90 of sys_openat when another core may run between the lookup
\* and what follows it: the path is resolved and looked up.
sys_openat_89(p, path, flags) ==
    /\ OnCore(p)
    /\ pc[p] = "user"
    /\ Len(fds(p)) + Cardinality({q \in Pids : pc[q] = "openat_90"}) < MaxFds
    /\ Len(open_files) + Cardinality({q \in Pids : pc[q] = "openat_90"})
          < MaxOpenFiles
    /\ inode_sel' = [inode_sel EXCEPT ![p] =
                        GlobalDentryCache_get(global_dentry_cache,
                                              abs_path(cwd[p], path))]
    /\ call' = [call EXCEPT ![p] = [NoCall EXCEPT !.nr = "openat",
                                       !.path = path, !.flags = flags]]
    /\ pc' = [pc EXCEPT ![p] = "openat_90"]
    /\ UNCHANGED <<state, exit_code, parent, alive, zombie, lock, exit,
                   pid_sel, new_pid, ret, umem, TASK_QUEUE, running, cores,
                   next_pid, halted, reaped, regvars, fd_manager, fd_array,
                   open_files, file, global_dentry_cache, cwd, created,
                   pipevars>>

\* Lines 90-171 of sys_openat with the result of the lookup of line 89.
sys_openat_90(p) ==
    /\ OnCore(p)
    /\ pc[p] = "openat_90"
    /\ openat_lookup_done(p, call[p], inode_sel[p])
    /\ UNCHANGED <<cwd, inode_sel, pipevars>>

\* Number of regular inodes made by sys_mount and sys_openat together.
MaxInodes == 2

\* Number of bytes of testbin/text.txt that the model keeps.
nuclear == 1

\* sys_mount (lines 264-276): a new RegFileINode named "text.txt" that holds
\* the bytes of testbin/text.txt is inserted into the dentry cache under
\* "/text.txt"; the result is 0.
sys_mount(p) ==
    /\ OnCore(p)
    /\ pc[p] = "user"
    /\ Cardinality(DOMAIN file) < MaxInodes
    /\ LET inode == RegFileINode(Cardinality(DOMAIN file) + 1)
       IN /\ file' = [k \in DOMAIN file \cup {inode} |->
                         IF k = inode
                         THEN [name |-> "text.txt", len |-> nuclear]
                         ELSE file[k]]
          /\ global_dentry_cache' =
                GlobalDentryCache_insert(global_dentry_cache, "/text.txt",
                                         inode).table
    /\ fd_return(p, [NoCall EXCEPT !.nr = "mount"], 0)
    /\ created' = [created EXCEPT ![p] = NoCreated]
    /\ UNCHANGED <<fd_array, open_files, cwd, inode_sel, pipevars>>

\* Longest cwd, in bytes.
MaxCwd == 5

\* sys_chdir (lines 607-616): path and "/" are appended to the caller's cwd.
sys_chdir(p, path) ==
    /\ OnCore(p)
    /\ pc[p] = "user"
    /\ Len(cwd[p]) + Len(path) + 1 <= MaxCwd
    /\ cwd' = [cwd EXCEPT ![p] = @ \o path \o "/"]
    /\ fd_return(p, [NoCall EXCEPT !.nr = "chdir", !.path = path], 0)
    /\ created' = [created EXCEPT ![p] = NoCreated]
    /\ UNCHANGED <<fd_array, open_files, file, global_dentry_cache, inode_sel,
                   pipevars>>

\* Lines 719-723 of sys_unlinkat: the start_dir_path that replaces the one
\* of lines 708-712.
unlink_start_dir_path(dir, path) ==
    IF path = "./text.txt" THEN "/mnt/" ELSE "/"

\* Line 728 of sys_unlinkat: abs_path.
unlink_abs_path(dir, path) == unlink_start_dir_path(dir, path) \o rel_path(path)

\* GlobalDentryCache::unlink: the mapping of the path is removed.
GlobalDentryCache_unlink(table, path) ==
    [k \in DOMAIN table \ {path} |-> table[k]]

\* sys_unlinkat (lines 697-734): -1 for fd >= len (a negative fd passes);
\* else the mapping of the resolved path is removed from the dentry cache
\* and the result is 0. flags is not read.
sys_unlinkat(p, fd, path) ==
    /\ OnCore(p)
    /\ pc[p] = "user"
    /\ LET c == [NoCall EXCEPT !.nr = "unlinkat", !.fd = fd, !.path = path]
       IN IF fd >= Len(fds(p))
          THEN /\ fd_return(p, c, -1)
               /\ UNCHANGED global_dentry_cache
          ELSE /\ global_dentry_cache' =
                     GlobalDentryCache_unlink(global_dentry_cache,
                         unlink_abs_path(cwd[p], path))
               /\ fd_return(p, c, 0)
    /\ created' = [created EXCEPT ![p] = NoCreated]
    /\ UNCHANGED <<fd_array, open_files, file, cwd, inode_sel, pipevars>>

\* The syscalls on the descriptor table alone: close, dup, dup3.
FdNext ==
    \/ run
    \/ \E p \in Pids : user_loop_next(p)
    \/ \E p \in Pids, fd \in FdArgs : sys_close(p, fd)
    \/ \E p \in Pids, fd \in FdArgs : sys_dup(p, fd)
    \/ \E p \in Pids, fd \in FdArgs, n \in Dup3Targets : sys_dup3(p, fd, n)

FdSpec == Init /\ [][FdNext]_vars

\* The syscalls on files: openat, dup, write, read.
FileNext ==
    \/ run
    \/ \E p \in Pids : user_loop_next(p)
    \/ \E p \in Pids, path \in Paths, f \in OpenFlagArgs : sys_openat(p, path, f)
    \/ \E p \in Pids, fd \in FdArgs : sys_dup(p, fd)
    \/ \E p \in Pids, fd \in FdArgs, d \in WriteData : sys_write(p, fd, d)
    \/ \E p \in Pids, fd \in FdArgs, n \in LenArgs : sys_read(p, fd, n)

FileSpec == Init /\ [][FileNext]_vars

\* Every syscall that takes an fd, without files and pipes.
FdErrNext ==
    \/ run
    \/ \E p \in Pids : user_loop_next(p)
    \/ \E p \in Pids, fd \in FdArgs : sys_close(p, fd)
    \/ \E p \in Pids, fd \in FdArgs : sys_dup(p, fd)
    \/ \E p \in Pids, fd \in FdArgs, n \in Dup3Targets : sys_dup3(p, fd, n)
    \/ \E p \in Pids, fd \in FdArgs, d \in WriteData : sys_write(p, fd, d)
    \/ \E p \in Pids, fd \in FdArgs, n \in LenArgs : sys_read(p, fd, n)
    \/ \E p \in Pids, fd \in FdArgs, n \in DentLens, l \in Listings,
          o \in BOOLEAN : sys_getdents64(p, fd, n, l, o)
    \/ \E p \in Pids, fd \in FdArgs : sys_mkdirat(p, fd)
    \/ \E p \in Pids, fd \in FdArgs : sys_fstat(p, fd)

FdErrSpec == Init /\ [][FdErrNext]_vars

\* Path arguments of openat and unlinkat: absolute, relative, and the path
\* sys_unlinkat names.
PathArgs == {"/a", "a", "./text.txt"}
\* The directory sys_chdir enters.
DirArgs == {"mnt"}
\* fd of sys_unlinkat: AT_FDCWD and an fd out of range.
AT_FDCWD == -100
UnlinkFdArgs == {AT_FDCWD, MaxFds}
\* fd and bytes of the reads and writes on regular files.
RegFdArgs == {3}
RegWriteData == {<<67>>}
RegLenArgs == {1}

\* The dentry cache: openat, unlinkat, chdir and mount, with writes and reads
\* through the descriptors.
DentryNext ==
    \/ run
    \/ \E p \in Pids : user_loop_next(p)
    \/ \E p \in Pids, path \in PathArgs : sys_openat(p, path, RDWR)
    \/ \E p \in Pids, fd \in UnlinkFdArgs, path \in PathArgs :
          sys_unlinkat(p, fd, path)
    \/ \E p \in Pids, path \in DirArgs : sys_chdir(p, path)
    \/ \E p \in Pids : sys_mount(p)
    \/ \E p \in Pids, fd \in RegFdArgs, d \in RegWriteData : sys_write(p, fd, d)
    \/ \E p \in Pids, fd \in RegFdArgs, n \in RegLenArgs : sys_read(p, fd, n)

DentrySpec == Init /\ [][DentryNext]_vars

\* Number of pids and the paths when two cores open one path.
RaceProcs == 2
RacePaths == {"/a", "/null"}

\* sys_openat by the processes of two cores: the lookup and what follows it
\* are two steps, and the other core may run between them.
OpenRaceNext ==
    \/ run
    \/ \E p \in Pids : user_loop_next(p)
    \/ \E p \in Pids : trap_clone_args(p, RaceProcs, 0, 0, 0)
    \/ \E p \in Pids : sys_clone_113(p)
    \/ \E p \in Pids : sys_clone_120(p)
    \/ \E p \in Pids : sys_clone_163(p)
    \/ \E p \in Pids, path \in RacePaths : sys_openat_89(p, path, RDWR)
    \/ \E p \in Pids : sys_openat_90(p)

OpenRaceSpec == SmpInit /\ [][OpenRaceNext]_vars

\* fd of read and write under the pipe specifications: the two ends of the
\* first pipe made on the table of three standard descriptors.
PipeFdArgs == {3, 4}

\* The pipe calls of one process: pipe2, write, read.
PipeSoloNext ==
    \/ run
    \/ \E p \in Pids : user_loop_next(p)
    \/ \E p \in Pids : sys_pipe2(p)
    \/ \E p \in Pids, fd \in PipeFdArgs, d \in WriteData : sys_write(p, fd, d)
    \/ \E p \in Pids : sys_write_234(p)
    \/ \E p \in Pids, fd \in PipeFdArgs, n \in LenArgs : sys_read(p, fd, n)
    \/ \E p \in Pids : sys_read_327(p)
    \/ \E p \in Pids : sys_read_339(p)

PipeSoloSpec == Init /\ [][PipeSoloNext]_vars

\* Number of pids under the pipe specifications: a parent and its child,
\* which share the fd table.
PipeProcs == 2

\* A pipe between a process and its clone.
PipeNext ==
    \/ PipeSoloNext
    \/ \E p \in Pids : trap_clone(p, PipeProcs)
    \/ \E p \in Pids : sys_clone_113(p)
    \/ \E p \in Pids : sys_clone_120(p)
    \/ \E p \in Pids : sys_clone_163(p)

PipeSpec == Init /\ [][PipeNext]_vars

\* len of the reads under the specification of the yield points: two turns
\* of the pipe loop.
YieldLenArgs == {2}

\* The two suspension points: a parent waits for any child (sys_waitpid's
\* wait loop) while its clone reads from a pipe that nobody writes to
\* (sys_read's pipe loop), and exits.
YieldNext ==
    \/ run
    \/ \E p \in Pids : user_loop_exit(p)
    \/ \E p \in Pids : user_loop_next(p)
    \/ \E p \in Pids : trap_clone(p, PipeProcs)
    \/ \E p \in Pids : sys_clone_113(p)
    \/ \E p \in Pids : sys_clone_120(p)
    \/ \E p \in Pids : sys_clone_163(p)
    \/ \E p \in Pids : sys_pipe2(p)
    \/ \E p \in Pids, fd \in PipeFdArgs, n \in YieldLenArgs : sys_read(p, fd, n)
    \/ \E p \in Pids : sys_read_327(p)
    \/ \E p \in Pids : sys_read_339(p)
    \/ \E p \in Pids : trap_exit(p, 0)
    \/ \E p \in Pids : sys_exit_86(p)
    \/ \E p \in Pids : sys_exit_93(p)
    \/ \E p \in Pids : sys_exit_94(p)
    \/ \E p \in Pids : sys_exit_96(p)
    \/ \E p \in Pids : sys_exit_99(p)
    \/ \E p \in Pids : trap_waitpid(p, -1, 0, 0)
    \/ \E p \in Pids : sys_waitpid_244(p)
    \/ \E p \in Pids : sys_waitpid_259(p)
    \/ \E p \in Pids : sys_waitpid_261(p)
    \/ \E p \in Pids : sys_waitpid_268(p)
    \/ \E p \in Pids : sys_waitpid_269(p)
    \/ \E p \in Pids : sys_waitpid_277(p)

YieldSpec == Init /\ [][YieldNext]_vars

\* dup3 of the ends of a pipe onto stdin, stdout and a new slot, and the
\* descriptors then written and read.
Dup3OntoArgs == {0, 1, 5}
Dup3WriteFds == {1, 4, 5}
Dup3ReadFds == {0, 3}

\* pipe2, dup3 onto the standard descriptors, write and read.
Dup3PipeNext ==
    \/ run
    \/ \E p \in Pids : user_loop_next(p)
    \/ \E p \in Pids : sys_pipe2(p)
    \/ \E p \in Pids, fd \in PipeFdArgs, n \in Dup3OntoArgs : sys_dup3(p, fd, n)
    \/ \E p \in Pids, fd \in Dup3WriteFds, d \in RegWriteData :
          sys_write(p, fd, d)
    \/ \E p \in Pids : sys_write_234(p)
    \/ \E p \in Pids, fd \in Dup3ReadFds, n \in RegLenArgs : sys_read(p, fd, n)
    \/ \E p \in Pids : sys_read_327(p)
    \/ \E p \in Pids : sys_read_339(p)

Dup3PipeSpec == Init /\ [][Dup3PipeNext]_vars

\* ============================================================== claims
WaitPcs == {"wait_244", "wait_259", "wait_261", "wait_268", "wait_269",
            "wait_277", "wait_282"}

\* p is inside sys_waitpid(-1, _, _).
InWaitAny(p) == pc[p] \in WaitPcs /\ call[p].pid = -1

\* C1: for every parent q the alive and zombie maps are disjoint, and a pid
\* that waitpid has reported reaped is in neither map, in every reachable
\* state (so it never re-enters either).
C1_OneMapAtMost ==
    \A q \in Pids :
        /\ alive[q] \cap zombie[q] = {}
        /\ reaped[q] \cap (alive[q] \cup zombie[q]) = {}

\* A parent has reaped one child and still tracks another.
C1_Witness ==
    \E q \in Pids : reaped[q] # {} /\ (alive[q] \cup zombie[q]) # {}

\* C2: sys_exit(c) leaves the caller ZOMBIE with exit_code c; the waitpid
\* that reaps a child r writes exactly c * 2^8 (c the code r exited with) to
\* a non-null status pointer, and a waitpid with a null status pointer
\* leaves the status cell alone.
C2_ExitStatus ==
    [][\A p \in Pids :
        /\ (pc[p] = "exit_86" /\ pc'[p] # "exit_86")
              => (state'[p] = "ZOMBIE" /\ exit_code'[p] = call[p].code)
        /\ state'[p] = "ZOMBIE" => exit_code'[p] = call'[p].code
        /\ \A r \in reaped'[p] \ reaped[p] :
              /\ state[r] = "ZOMBIE"
              /\ call[p].status # 0 => umem'[p] = call[r].code * 256
        /\ (call[p].nr = "waitpid" /\ call[p].status = 0)
              => umem'[p] = umem[p]
      ]_vars

\* A parent has reaped, with a status pointer, a child that exited with -1.
C2_Witness ==
    \E p \in Pids :
        /\ pc[p] = "sysret" /\ call[p].nr = "waitpid" /\ call[p].status # 0
        /\ reaped[p] # {} /\ umem[p] = -256

\* A child of p has called sys_exit and p has not reaped it.
ChildExited(p) == \E c \in alive[p] \cup zombie[p] : call[c].nr = "exit"

\* p is inside a blocking waitpid(-1) and a child of p has called sys_exit.
WaitingForExited(p) == InWaitAny(p) /\ call[p].options = 0 /\ ChildExited(p)

\* p is back from waitpid with the pid of a child of p that has exited.
ReturnedExitedChild(p) ==
    /\ pc[p] = "sysret" /\ call[p].nr = "waitpid"
    /\ ret[p] \in Pids /\ parent[ret[p]] = p /\ state[ret[p]] = "ZOMBIE"

\* The safety half of C3: a blocking waitpid(-1) that finds the zombie map
\* empty yields (the task goes to the back of the ready queue and stays in
\* the wait loop), and a blocking waitpid(-1) of a caller with a child
\* returns only the pid of a child that has exited.
C3_Safety ==
    \A p \in Pids :
        /\ (p \in running /\ pc[p] = "wait_261" /\ call[p].options = 0
              /\ zombie[p] = {})
              => /\ pc'[p] = "wait_261" /\ p \notin running'
                 /\ TASK_QUEUE' = Append(TASK_QUEUE, p)
        /\ (InWaitAny(p) /\ call[p].options = 0 /\ pc'[p] = "sysret"
              /\ alive[p] \cup zombie[p] # {})
              => /\ ret'[p] \in zombie[p] /\ state[ret'[p]] = "ZOMBIE"
                 /\ call[ret'[p]].nr = "exit"

\* C3: a blocking waitpid(-1) yields while the zombie map is empty and,
\* once a child of the caller has called exit, eventually returns the pid
\* of an exited child, under fair scheduling.
C3_BlockingWaitReturns ==
    /\ [][C3_Safety]_vars
    /\ \A p \in Pids : WaitingForExited(p) ~> ReturnedExitedChild(p)

\* A caller that yielded in a blocking waitpid(-1) is back with the pid of
\* an exited child.
C3_Witness ==
    \E p \in Pids :
        /\ ReturnedExitedChild(p) /\ call[p].pid = -1 /\ call[p].options = 0
        /\ ~halted

\* C4: waitpid returns 0 only to a caller that has an alive child and no
\* zombie child at the call; a caller with no child at all never gets 0.
C4_ZeroOnlyIfNothingReady ==
    [][\A p \in Pids :
        (call[p].nr = "waitpid" /\ pc[p] # "sysret" /\ pc'[p] = "sysret"
            /\ ret'[p] = 0)
        => (alive[p] # {} /\ zombie[p] = {})
      ]_vars

\* C5: a blocking waitpid(-1) by a caller with no child at all returns -1
\* in its first step: no yield, no write to the status cell, no change to
\* any alive or zombie map.
C5_NoChildrenBlocking ==
    [][\A p \in Pids :
        (p \in running /\ pc[p] = "wait_244" /\ call[p].pid = -1
            /\ call[p].options = 0 /\ alive[p] = {} /\ zombie[p] = {})
        => /\ pc'[p] = "sysret" /\ ret'[p] = -1
           /\ p \in running' /\ TASK_QUEUE' = TASK_QUEUE
           /\ umem' = umem /\ alive' = alive /\ zombie' = zombie
           /\ parent' = parent /\ state' = state
      ]_vars

\* A childless caller is back from a blocking waitpid(-1) with -1.
C5_Witness ==
    \E p \in Pids :
        /\ pc[p] = "sysret" /\ call[p].nr = "waitpid" /\ call[p].pid = -1
        /\ call[p].options = 0 /\ ret[p] = -1
        /\ alive[p] = {} /\ zombie[p] = {} /\ reaped[p] = {}

\* C6: a non-blocking waitpid(-1) by a caller with an alive child and no
\* zombie goes through its steps without a yield, without a write to the
\* status cell and without a change to any alive or zombie map, and the
\* value it returns is 0.
C6_NonBlockingNothingReady ==
    [][\A p \in Pids :
        (p \in running /\ InWaitAny(p) /\ call[p].options > 0
            /\ alive[p] # {} /\ zombie[p] = {})
        => /\ p \in running' /\ TASK_QUEUE' = TASK_QUEUE
           /\ umem' = umem /\ alive' = alive /\ zombie' = zombie
           /\ pc'[p] \in {"wait_259", "wait_261", "sysret"}
           /\ pc'[p] = "sysret" => ret'[p] = 0
      ]_vars

\* A caller with an alive child and no zombie is back from a non-blocking
\* waitpid(-1) with 0.
C6_Witness ==
    \E p \in Pids :
        /\ pc[p] = "sysret" /\ call[p].nr = "waitpid" /\ call[p].pid = -1
        /\ call[p].options > 0 /\ ret[p] = 0
        /\ alive[p] # {} /\ zombie[p] = {}

\* C7: waitpid(-1) selects the smallest key of the caller's zombie map,
\* returns it, removes exactly that entry, and leaves every other zombie
\* and every alive child in place.
C7_FirstZombieReaped ==
    [][\A p \in Pids :
        /\ (pc[p] = "wait_269" /\ pc'[p] = "wait_277")
              => /\ pid_sel'[p] \in zombie[p]
                 /\ \A j \in zombie[p] : pid_sel'[p] <= j
        /\ (pc[p] = "wait_277" /\ pc'[p] # "wait_277")
              => /\ pc'[p] = "sysret" /\ ret'[p] = pid_sel[p]
                 /\ pid_sel[p] \in zombie[p]
                 /\ \A j \in zombie[p] : pid_sel[p] <= j
                 /\ zombie' = [zombie EXCEPT ![p] = @ \ {pid_sel[p]}]
                 /\ alive' = alive
        /\ (InWaitAny(p) /\ pc'[p] = "sysret" /\ ret'[p] > 0)
              => pc[p] = "wait_277"
      ]_vars

\* A caller is back from waitpid(-1) with a pid while another zombie, of a
\* larger pid, is still in its map.
C7_Witness ==
    \E p \in Pids :
        /\ pc[p] = "sysret" /\ call[p].nr = "waitpid" /\ call[p].pid = -1
        /\ ret[p] > 0 /\ zombie[p] # {}
        /\ \A j \in zombie[p] : ret[p] < j

\* C8: waitpid(p) for a specific pid p in the caller's zombie map removes
\* p, writes exit_code * 2^8 to a non-null status pointer and returns p.
C8_SpecificReapReturnsPid ==
    [][\A p \in Pids :
        (p \in running /\ pc[p] = "wait_282" /\ call[p].pid \in zombie[p])
        => /\ pc'[p] = "sysret"
           /\ zombie'[p] = zombie[p] \ {call[p].pid}
           /\ call[p].status # 0
                 => umem'[p] = exit_code[call[p].pid] * 256
           /\ ret'[p] = call[p].pid
      ]_vars

\* C9: waitpid(p) for a specific pid p not in the caller's zombie map
\* returns -1 whatever the options, without a yield and without a change
\* to the maps or the status cell.
C9_SpecificAbsentFails ==
    [][\A p \in Pids :
        (p \in running /\ pc[p] \in {"wait_244", "wait_282"}
            /\ call[p].pid # -1 /\ call[p].pid \notin zombie[p])
        => /\ p \in running' /\ TASK_QUEUE' = TASK_QUEUE
           /\ umem' = umem /\ alive' = alive /\ zombie' = zombie
           /\ pc'[p] \in {"wait_282", "sysret"}
           /\ pc'[p] = "sysret" => ret'[p] = -1
      ]_vars

ActivePcs == {"user", "exit_86", "exit_93", "exit_94", "exit_96", "exit_99",
              "clone_113", "clone_120", "clone_163", "exec_170", "exec_201",
              "exec_205"} \cup WaitPcs

\* C11: once sys_exit has returned to user_loop (the caller is ZOMBIE and at
\* the return of the syscall) the task only finishes: it never goes back to
\* user mode or into a handler, a finished task stays finished, is on no
\* core and not in the ready queue, and no step changes its registers,
\* its syscall record or its user memory; the exit of the root halts the
\* machine, after which no task steps at all.
C11_NoStepAfterExit ==
    [][\A p \in Pids :
        /\ (state[p] = "ZOMBIE" /\ pc[p] \in {"sysret", "done", "halt"})
              => /\ pc'[p] \in {"sysret", "done", "halt"}
                 /\ pc'[p] \notin ActivePcs
                 /\ ret'[p] = ret[p] /\ call'[p] = call[p]
                 /\ umem'[p] = umem[p]
        /\ pc[p] = "sysret" /\ call[p].nr = "exit" => exit[p]
        /\ pc[p] \in {"done", "halt"} => pc'[p] = pc[p]
        /\ pc'[p] = "done"
              => /\ p \notin running'
                 /\ \A i \in 1 .. Len(TASK_QUEUE') : TASK_QUEUE'[i] # p
      ]_vars

\* A process has exited and its task is finished while another task is on
\* the core in user mode.
C11_Witness ==
    \E p, q \in Pids :
        /\ p # q /\ pc[p] = "done" /\ exit[p] /\ state[p] = "ZOMBIE"
        /\ q \in running /\ pc[q] = "user" /\ ~halted

\* C12: an exec that finds no image or an unparsable one terminates the
\* caller through sys_exit(-1) and goes on: when the failing exec stands at
\* sys_exit's lock acquisition (line 86) the lock it asks for is not one the
\* caller holds itself, so the acquisition can succeed, the caller becomes
\* ZOMBIE with code -1 and the core goes back to the run loop.
C12_FailedExecExitsCaller ==
    \A p \in Pids :
        (call[p].nr = "exec" /\ pc[p] = "exit_86") => lock[p] # p

\* Positions inside sys_clone.
ClonePcs == {"clone_113", "clone_120", "clone_163"}

\* C13: clone returns the pid it allocated, and that pid is the caller's
\* new child, ready to start in user mode; the child's trap frame is the
\* caller's with a0 = 0, with x[2] replaced by stack only when stack # 0
\* and x[4] replaced by tls only when bit 19 (CLONE_SETTLS) of flags is
\* set; no step of clone changes the caller's saved registers, and a0 of
\* the caller changes only by receiving the result.
C13_CloneTrapFrames ==
    [][\A p \in Pids :
        /\ (pc[p] = "clone_120" /\ pc'[p] = "clone_163")
              => LET n == new_pid[p]
                 IN /\ ret'[n] = 0
                    /\ trapframe'[n].x2 = IF call[p].stack # 0
                                          THEN call[p].stack
                                          ELSE trapframe[p].x2
                    /\ trapframe'[n].x4 =
                          IF (call[p].flags \div 524288) % 2 = 1
                          THEN call[p].tls ELSE trapframe[p].x4
        /\ (pc[p] = "clone_163" /\ pc'[p] = "sysret")
              => /\ ret'[p] = new_pid[p]
                 /\ parent'[ret'[p]] = p /\ ret'[p] \in alive'[p]
                 /\ pc[ret'[p]] = "none" /\ pc'[ret'[p]] = "user"
                 /\ ret'[ret'[p]] = 0
        /\ pc[p] \in ClonePcs
              => /\ trapframe'[p] = trapframe[p]
                 /\ (ret'[p] # ret[p] => pc'[p] = "sysret")
      ]_vars

\* A parent is back from clone(CLONE_SETTLS, stack = 0, tls = 9) with the
\* pid of a child whose x[4] is 9 and whose x[2] is the parent's, and a
\* second child made with stack = 8 and no flag has x[2] = 8 and the
\* parent's x[4].
C13_Witness ==
    \E p, n, m \in Pids :
        /\ pc[p] = "sysret" /\ call[p].nr = "clone" /\ ret[p] = n
        /\ call[p].flags = 524305 /\ call[p].stack = 0 /\ call[p].tls = 9
        /\ parent[n] = p /\ ret[n] = 0
        /\ trapframe[n].x4 = 9 /\ trapframe[n].x2 = trapframe[p].x2
        /\ trapframe[p].x4 # 9
        /\ parent[m] = p /\ m # n /\ trapframe[m].x2 = 8
        /\ trapframe[m].x4 = trapframe[p].x4 /\ trapframe[p].x2 # 8

\* Two kernel stack regions have no address in common.
Disjoint(a, b) == a.hi <= b.lo \/ b.hi <= a.lo

\* C15: the pid a clone allocates is greater than the pid of every process
\* that exists and of every pid another clone in progress has allocated,
\* also when two cores run clones at once; the kernel stack installed for a
\* pid is [TRAMPOLINE - KERNEL_STACK_SIZE * (pid + 1), TRAMPOLINE -
\* KERNEL_STACK_SIZE * pid), and the regions of two processes are disjoint.
C15_FreshPidDisjointStacks ==
    [][/\ \A p \in Pids :
            (pc[p] = "clone_113" /\ pc'[p] # "clone_113")
            => /\ \A q \in Pids : state[q] # "NONE" => q < new_pid'[p]
               /\ \A q \in Pids \ {p} :
                     pc[q] \in {"clone_120", "clone_163", "panic"}
                     => new_pid[q] < new_pid'[p]
       /\ \A p \in Pids :
            state'[p] # "NONE"
            => /\ kstack'[p].lo = 64 - 2 * (p + 1)
               /\ kstack'[p].hi = 64 - 2 * p
               /\ trapframe'[p].kernel_sp = kstack'[p].hi
       /\ \A p, q \in Pids :
            (p # q /\ state'[p] # "NONE" /\ state'[q] # "NONE")
            => Disjoint(kstack'[p], kstack'[q])
      ]_vars

\* Two tasks, each on a core, are inside clone at once, each past the
\* allocation of its child's pid and the installation of its stack.
C15_Witness ==
    \E p, q \in Pids :
        /\ p # q /\ {p, q} \subseteq running
        /\ pc[p] = "clone_163" /\ pc[q] = "clone_163"
        /\ new_pid[p] # new_pid[q]
        /\ kstack[new_pid[p]] # NoStack /\ kstack[new_pid[q]] # NoStack

\* C14: the child of a clone refers to the caller's FdManager exactly when
\* bit 10 (CLONE_FILES) of flags is set; without it the child has an
\* FdManager of its own that starts as a copy of the caller's.
C14_SharedIffCloneFiles ==
    [][\A p \in Pids :
        (pc[p] = "clone_120" /\ pc'[p] = "clone_163")
        => LET n == new_pid[p]
           IN IF (call[p].flags \div 1024) % 2 = 1
              THEN fd_manager'[n] = fd_manager'[p]
              ELSE /\ fd_manager'[n] # fd_manager'[p]
                   /\ fd_array'[fd_manager'[n]] = fd_array[fd_manager[p]]
      ]_vars

\* The caller's fd_array after the step.
fds_next(p) == fd_array'[fd_manager'[p]]

\* The step is the syscall nr of p, from the trap to its return.
Returns(p, nr) == pc[p] = "user" /\ pc'[p] = "sysret" /\ call'[p].nr = nr

\* C16: close of an in-range descriptor that is neither readable nor
\* writable returns 0, leaves that slot neither readable nor writable,
\* leaves the length and every other slot as they were, and leaves a state
\* from which the same close gives the same result again.
C16_CloseClosed ==
    [][\A p \in Pids :
        LET fd == call'[p].fd
        IN (Returns(p, "close") /\ in_range(fds(p), fd)
               /\ closed(slot(fds(p), fd)))
           => /\ ret'[p] = 0
              /\ Len(fds_next(p)) = Len(fds(p))
              /\ closed(slot(fds_next(p), fd))
              /\ \A i \in 0 .. (Len(fds(p)) - 1) :
                    i # fd => slot(fds_next(p), i) = slot(fds(p), i)
              /\ FdManager_close(fds_next(p), fd) = fds_next(p)
      ]_vars

\* A process is back from close of a closed slot, with 0, and an open
\* descriptor sits above that slot.
C16_Witness ==
    \E p \in Pids :
        /\ pc[p] = "sysret" /\ call[p].nr = "close" /\ ret[p] = 0
        /\ in_range(fds(p), call[p].fd) /\ closed(slot(fds(p), call[p].fd))
        /\ in_range(fds(p), call[p].fd + 1)
        /\ ~closed(slot(fds(p), call[p].fd + 1))

\* C17: close of an in-range descriptor that is readable or writable leaves
\* the slot neither readable nor writable and no longer referring to the
\* OpenFile it referred to.
C17_CloseOpen ==
    [][\A p \in Pids :
        LET fd == call'[p].fd
        IN (Returns(p, "close") /\ in_range(fds(p), fd)
               /\ ~closed(slot(fds(p), fd)))
           => /\ ret'[p] = 0
              /\ closed(slot(fds_next(p), fd))
              /\ slot(fds_next(p), fd).open_file # slot(fds(p), fd).open_file
      ]_vars

\* C18: a dup that succeeds returns n such that slot n then shares the
\* OpenFile and the flags of slot fd; n is the first slot that was neither
\* readable nor writable, the length staying, or else the old length, the
\* table growing by one.
C18_DupSlot ==
    [][\A p \in Pids :
        LET fd == call'[p].fd
            n == ret'[p]
            free == {i \in 0 .. (Len(fds(p)) - 1) : closed(slot(fds(p), i))}
        IN (Returns(p, "dup") /\ n >= 0)
           => /\ in_range(fds_next(p), n)
              /\ slot(fds_next(p), n) = slot(fds(p), fd)
              /\ IF free # {}
                 THEN /\ n \in free /\ \A i \in free : n <= i
                      /\ Len(fds_next(p)) = Len(fds(p))
                 ELSE /\ n = Len(fds(p))
                      /\ Len(fds_next(p)) = Len(fds(p)) + 1
      ]_vars

\* C19: a write of k bytes through a descriptor of a regular file whose
\* OpenFile another descriptor shares (a dup) moves that OpenFile's offset
\* forward by k.
C19_SharedCursorAdvances ==
    [][\A p \in Pids :
        LET n == call'[p].fd
            id == slot(fds(p), n).open_file
        IN (Returns(p, "write") /\ ret'[p] > 0 /\ n # 1
               /\ open_file(id).inode \in DOMAIN file
               /\ \E fd \in 0 .. (Len(fds(p)) - 1) :
                     fd # n /\ slot(fds(p), fd).open_file = id)
           => open_files'[id].offset = open_files[id].offset + ret'[p]
      ]_vars

\* C20: dup3(fd, new_fd, 0) with slot fd open and new_fd at or above the
\* length L gives a table of length new_fd + 1 whose slots below L are as
\* before, whose slots in [L, new_fd) are neither readable nor writable and
\* whose slot new_fd is a copy of slot fd, and returns new_fd.
C20_Dup3Grows ==
    [][\A p \in Pids :
        LET fd == call'[p].fd
            new_fd == call'[p].new_fd
            L == Len(fds(p))
        IN (Returns(p, "dup3") /\ in_range(fds(p), fd)
               /\ ~closed(slot(fds(p), fd)) /\ new_fd >= L)
           => /\ ret'[p] = new_fd
              /\ Len(fds_next(p)) = new_fd + 1
              /\ \A i \in 0 .. (L - 1) : slot(fds_next(p), i) = slot(fds(p), i)
              /\ \A i \in L .. (new_fd - 1) : closed(slot(fds_next(p), i))
              /\ slot(fds_next(p), new_fd) = slot(fds(p), fd)
      ]_vars

\* A process is back from dup3(2, 5, 0) on the table of three standard
\* descriptors: slots 3 and 4 are placeholders, slot 5 is a copy of slot 2.
C20_Witness ==
    \E p \in Pids :
        /\ pc[p] = "sysret" /\ call[p].nr = "dup3" /\ ret[p] = 5
        /\ call[p].fd = 2 /\ call[p].new_fd = 5
        /\ Len(fds(p)) = 6
        /\ closed(slot(fds(p), 3)) /\ closed(slot(fds(p), 4))
        /\ slot(fds(p), 5) = slot(fds(p), 2) /\ ~closed(slot(fds(p), 5))
        /\ \A i \in 0 .. 2 : slot(fds(p), i) = FdManager_new[i + 1]

\* C21: when open(path, CREATE) has just created the inode of a path that
\* was not in the dentry cache and the same process opens the same path
\* with flags 0 next, the second open returns the fd of the first and the
\* fd table has the length it had.
C21_ReopenSameFd ==
    [][\A p \in Pids :
        (Returns(p, "openat") /\ created[p].path = call'[p].path
            /\ created[p].flags = CREATE /\ call'[p].flags = 0)
        => /\ ret'[p] = created[p].fd
           /\ Len(fds_next(p)) = Len(fds(p))
      ]_vars

\* C22: the descriptor that a successful open installs is readable exactly
\* for the access modes read-only and read-write, and writable exactly for
\* write-only and read-write.
C22_AccessMode ==
    [][\A p \in Pids :
        (Returns(p, "openat") /\ ret'[p] >= 0)
        => LET d == slot(fds_next(p), ret'[p])
               mode == call'[p].flags % 4
           IN /\ d.readable <=> mode \in {RDONLY, RDWR}
              /\ d.writable <=> mode \in {WRONLY, RDWR}
      ]_vars

\* C23: pipe2 returns 0 and stores two different indices r and w, neither
\* of them an open slot before the call; afterwards slot r is readable and
\* not writable, slot w writable and not readable, their OpenFiles are two
\* new ones that refer to one and the same buffer, that buffer is new, empty
\* and in global_buffer_list, and every slot the caller had is unchanged.
C23_Pipe2 ==
    [][\A p \in Pids :
        Returns(p, "pipe2")
        => LET r == ubuf'[p][1]
               w == ubuf'[p][2]
               rd == slot(fds_next(p), r)
               wr == slot(fds_next(p), w)
           IN /\ ret'[p] = 0 /\ Len(ubuf'[p]) = 2 /\ r # w
              /\ ~in_range(fds(p), r) \/ closed(slot(fds(p), r))
              /\ ~in_range(fds(p), w) \/ closed(slot(fds(p), w))
              /\ in_range(fds_next(p), r) /\ in_range(fds_next(p), w)
              /\ rd.readable /\ ~rd.writable
              /\ wr.writable /\ ~wr.readable
              /\ rd.open_file # wr.open_file
              /\ rd.open_file > Len(open_files)
              /\ wr.open_file > Len(open_files)
              /\ open_files'[rd.open_file].buf = open_files'[wr.open_file].buf
              /\ open_files'[rd.open_file].buf = Len(global_buffer_list) + 1
              /\ Len(global_buffer_list') = Len(global_buffer_list) + 1
              /\ global_buffer_list'[Len(global_buffer_list')] = <<>>
              /\ \A k \in 1 .. Len(global_buffer_list) :
                    global_buffer_list'[k] = global_buffer_list[k]
              /\ \A i \in 0 .. (Len(fds(p)) - 1) :
                    slot(fds_next(p), i) = slot(fds(p), i)
      ]_vars

\* A process is back from pipe2 with r = 3 and w = 4 on the table of three
\* standard descriptors.
C23_Witness ==
    \E p \in Pids :
        /\ pc[p] = "sysret" /\ call[p].nr = "pipe2" /\ ret[p] = 0
        /\ ubuf[p] = <<3, 4>> /\ Len(fds(p)) = 5
        /\ slot(fds(p), 3).readable /\ slot(fds(p), 4).writable
        /\ global_buffer_list = <<(<<>>)>>

\* The pipe buffer behind fd of p's table.
pipe_of(p, fd) == global_buffer_list[open_file(slot(fds(p), fd).open_file).buf]

\* p is in, or back from, a read through the read end of a pipe that held
\* all the bytes asked for when the read began.
ReadOfPresent(p) ==
    /\ call[p].nr = "read"
    /\ in_range(fds(p), call[p].fd)
    /\ slot(fds(p), call[p].fd).readable
    /\ is_pipe(slot(fds(p), call[p].fd).open_file)
    /\ avail[p] >= call[p].len

C25_NoPlaceholder ==
    \A p \in Pids :
        (call[p].nr = "read" /\ pc[p] \in {"read_327", "read_339", "sysret"}
            /\ in_range(fds(p), call[p].fd)
            /\ is_pipe(slot(fds(p), call[p].fd).open_file))
        => \A i \in 1 .. Len(ubuf[p]) :
              /\ i <= Len(pipe_of(p, call[p].fd))
              /\ ubuf[p][i] = pipe_of(p, call[p].fd)[i]

\* Positions at which a task is suspended by a cooperative yield: the wait
\* loop of sys_waitpid and the pipe loop of sys_read.
YieldPcs == {"wait_261", "read_339"}

\* C26: a task that has yielded in the wait loop or in the pipe loop and is
\* not on a core holds no lock: neither a per-process lock nor the lock of
\* an inode.
C26_NoLockAcrossYield ==
    \A p \in Pids :
        (pc[p] \in YieldPcs /\ p \notin running)
        => /\ \A q \in Pids : lock[q] # p
           /\ \A id \in DOMAIN inode_lock : inode_lock[id] # p

\* The parent has yielded in the wait loop and the child in the pipe loop;
\* both are in the ready queue.
C26_Witness ==
    \E p, q \in Pids :
        /\ pc[p] = "wait_261" /\ pc[q] = "read_339"
        /\ p \notin running /\ q \notin running
        /\ \E i, j \in 1 .. Len(TASK_QUEUE) :
              TASK_QUEUE[i] = p /\ TASK_QUEUE[j] = q

\* C29: a read through an in-range descriptor that is not readable and a
\* write through an in-range descriptor that is not writable return a
\* negative result and leave every file and every pipe buffer as it was.
C29_AccessChecked ==
    [][\A p \in Pids :
        /\ (pc[p] \in {"user", "read_327"} /\ pc'[p] = "sysret"
               /\ call'[p].nr = "read" /\ in_range(fds(p), call'[p].fd)
               /\ ~slot(fds(p), call'[p].fd).readable)
           => /\ ret'[p] < 0
              /\ file' = file /\ global_buffer_list' = global_buffer_list
        /\ (pc[p] \in {"user", "write_234"} /\ pc'[p] = "sysret"
               /\ call'[p].nr = "write" /\ in_range(fds(p), call'[p].fd)
               /\ ~slot(fds(p), call'[p].fd).writable)
           => /\ ret'[p] < 0
              /\ file' = file /\ global_buffer_list' = global_buffer_list
      ]_vars

\* ------------------------------------------- the handlers on two cores
\* Number of pids when two cores drive the process handlers.
SmpProcs == 2

\* clone, exit and waitpid in both modes (any child, or the first child by
\* pid; blocking or not), with two cores driving the run loop.
SmpNext ==
    \/ run
    \/ \E p \in Pids : user_loop_exit(p)
    \/ \E p \in Pids : user_loop_next(p)
    \/ \E p \in Pids : trap_exit(p, 0)
    \/ \E p \in Pids : sys_exit_86(p)
    \/ \E p \in Pids : sys_exit_93(p)
    \/ \E p \in Pids : sys_exit_94(p)
    \/ \E p \in Pids : sys_exit_96(p)
    \/ \E p \in Pids : sys_exit_99(p)
    \/ \E p \in Pids : trap_clone_args(p, SmpProcs, 0, 0, 0)
    \/ \E p \in Pids : sys_clone_113(p)
    \/ \E p \in Pids : sys_clone_120(p)
    \/ \E p \in Pids : sys_clone_163(p)
    \/ \E p \in Pids, t \in {-1, 1}, o \in WaitOptions :
          trap_waitpid(p, t, 1, o)
    \/ \E p \in Pids : sys_waitpid_244(p)
    \/ \E p \in Pids : sys_waitpid_259(p)
    \/ \E p \in Pids : sys_waitpid_261(p)
    \/ \E p \in Pids : sys_waitpid_268(p)
    \/ \E p \in Pids : sys_waitpid_269(p)
    \/ \E p \in Pids : sys_waitpid_277(p)
    \/ \E p \in Pids : sys_waitpid_282(p)

SmpSpec == SmpInit /\ [][SmpNext]_vars

\* ----------------------------------------- a process tree on three cores
\* Number of pids of the tree: a parent, and two children or a child and a
\* grandchild.
TreeProcs == 3

\* One core for each task of the tree, so that every task can spin on a
\* lock at once.
TreeCores == 3

\* clone, exit and waitpid for any child (blocking or not, with a status
\* pointer) by the processes of one tree, with three cores driving the run
\* loop.
TreeNext ==
    \/ run
    \/ \E p \in Pids : user_loop_exit(p)
    \/ \E p \in Pids : user_loop_next(p)
    \/ \E p \in Pids : trap_exit(p, 0)
    \/ \E p \in Pids : sys_exit_86(p)
    \/ \E p \in Pids : sys_exit_93(p)
    \/ \E p \in Pids : sys_exit_94(p)
    \/ \E p \in Pids : sys_exit_96(p)
    \/ \E p \in Pids : sys_exit_99(p)
    \/ \E p \in Pids : trap_clone_args(p, TreeProcs, 0, 0, 0)
    \/ \E p \in Pids : sys_clone_113(p)
    \/ \E p \in Pids : sys_clone_120(p)
    \/ \E p \in Pids : sys_clone_163(p)
    \/ \E p \in Pids, o \in WaitOptions : trap_waitpid(p, -1, 1, o)
    \/ \E p \in Pids : sys_waitpid_244(p)
    \/ \E p \in Pids : sys_waitpid_259(p)
    \/ \E p \in Pids : sys_waitpid_261(p)
    \/ \E p \in Pids : sys_waitpid_268(p)
    \/ \E p \in Pids : sys_waitpid_269(p)
    \/ \E p \in Pids : sys_waitpid_277(p)

TreeSpec == Booted(TreeCores) /\ [][TreeNext]_vars

\* The task whose handler takes the step.
Steps(p) == pc'[p] # pc[p]

\* C27: every change of a process's alive or zombie map is made by a task
\* that holds that process's lock, and a held lock is released only by a
\* step of the task that holds it.
C27_LockedMutation ==
    [][\A q \in Pids :
          /\ (alive'[q] # alive[q] \/ zombie'[q] # zombie[q])
                => (lock[q] # Free /\ Steps(lock[q]))
          /\ (lock[q] # Free /\ lock'[q] # lock[q]) => Steps(lock[q])]_vars


\* The syscalls that take an fd.
FdCalls == {"close", "read", "write", "dup", "dup3", "getdents", "mkdir",
            "fstat"}

\* C28: a syscall that takes an fd, called with an fd outside the caller's
\* table, returns a negative result, does not panic, and leaves every fd
\* table and the dentry cache unchanged.
C28_BadFd ==
    [][\A p \in Pids :
        (/\ pc[p] = "user" /\ pc'[p] # "user"
         /\ call'[p].nr \in FdCalls
         /\ ~in_range(fds(p), call'[p].fd))
        => /\ pc'[p] = "sysret"
           /\ ret'[p] < 0
           /\ fd_array' = fd_array
           /\ global_dentry_cache' = global_dentry_cache]_vars

\* C30: when the listing of the inode fails, getdents returns no error: it
\* stores exactly one entry, named ".", and returns the size of that entry.
C30_DotFallback ==
    [][\A p \in Pids :
        (/\ pc[p] = "user" /\ pc'[p] # "user"
         /\ call'[p].nr = "getdents"
         /\ in_range(fds(p), call'[p].fd)
         /\ ~call'[p].list_ok)
        => /\ pc'[p] = "sysret"
           /\ dents'[p] = <<".">>
           /\ ret'[p] = SizeOfDirent + 2]_vars


\* Absolute paths the cache may hold under DentrySpec.
CacheKeys == {d \o n : d \in {"/", "/mnt/"}, n \in Names}

\* The step is an insert into the cache, by sys_openat or by sys_mount; its
\* path, and its inode: the one the new descriptor is on, or the new one.
Inserts(p) ==
    \/ Returns(p, "openat") /\ created'[p].fd # -1
    \/ Returns(p, "mount")
InsertPath(p) ==
    IF call'[p].nr = "mount" THEN "/text.txt"
    ELSE abs_path(cwd[p], call'[p].path)
InsertInode(p) ==
    IF call'[p].nr = "mount"
    THEN CHOOSE i \in DOMAIN file' \ DOMAIN file : TRUE
    ELSE open_files'[slot(fds_next(p), created'[p].fd).open_file].inode

\* The step is an unlink by sys_unlinkat; its path.
Unlinks(p) == Returns(p, "unlinkat") /\ ret'[p] = 0
UnlinkPath(p) == unlink_abs_path(cwd[p], call'[p].path)

\* C31: the dentry cache changes only by insert and unlink. After
\* insert(k, ino), get(k) is ino, which is also what insert returns, and
\* every other path is as before; after unlink(k), get(k) is nothing and
\* every other path is as before, and no descriptor, OpenFile or inode
\* changes; a write through a descriptor on a regular file appends to the
\* inode of that descriptor and a read through it reads that inode's data,
\* whether or not the cache still maps a path to the inode.
C31_DentryCache ==
    [][/\ \A p \in Pids :
            Inserts(p)
            => LET k == InsertPath(p)
                   ino == InsertInode(p)
               IN /\ GlobalDentryCache_get(global_dentry_cache', k) = ino
                  /\ GlobalDentryCache_insert(global_dentry_cache, k,
                                              ino).inode = ino
                  /\ DOMAIN file' \ DOMAIN file = {ino}
                  /\ \A j \in CacheKeys \ {k} :
                        GlobalDentryCache_get(global_dentry_cache', j)
                           = GlobalDentryCache_get(global_dentry_cache, j)
       /\ \A p \in Pids :
            Unlinks(p)
            => LET k == UnlinkPath(p)
               IN /\ GlobalDentryCache_get(global_dentry_cache', k) = NoInode
                  /\ \A j \in CacheKeys \ {k} :
                        GlobalDentryCache_get(global_dentry_cache', j)
                           = GlobalDentryCache_get(global_dentry_cache, j)
                  /\ fd_array' = fd_array /\ open_files' = open_files
                  /\ file' = file
       /\ (~ \E p \in Pids : Unlinks(p) \/ Inserts(p))
            => global_dentry_cache' = global_dentry_cache
       /\ DOMAIN global_dentry_cache' \subseteq CacheKeys
       /\ \A p \in Pids :
            LET fd == call'[p].fd
                ino == open_file(slot(fds(p), fd).open_file).inode
            IN /\ (Returns(p, "write") /\ ret'[p] > 0 /\ fd # 1
                     /\ ino \in DOMAIN file)
                  => /\ file'[ino].len = file[ino].len + ret'[p]
                     /\ \A j \in DOMAIN file \ {ino} : file'[j] = file[j]
               /\ (Returns(p, "read") /\ in_range(fds(p), fd)
                     /\ ino \in DOMAIN file)
                  => ret'[p] = read_bytes(
                        open_file(slot(fds(p), fd).open_file).offset,
                        file[ino].len, call'[p].len)
      ]_vars

\* A process opened "/a", unlinked it, wrote a byte through the descriptor
\* it had, opened "/a" again and got a new inode: the cache maps "/a" to
\* the new inode and descriptor 3 is still on the old one, which holds the
\* byte.
C31_Witness ==
    \E p \in Pids :
        /\ pc[p] = "sysret" /\ call[p].nr = "openat" /\ ret[p] = 4
        /\ Len(fds(p)) = 5
        /\ GlobalDentryCache_get(global_dentry_cache, "/a")
              = open_file(slot(fds(p), 4).open_file).inode
        /\ open_file(slot(fds(p), 3).open_file).inode
              # open_file(slot(fds(p), 4).open_file).inode
        /\ file[open_file(slot(fds(p), 3).open_file).inode].len = 1
        /\ file[open_file(slot(fds(p), 4).open_file).inode].len = 0


\* C37: after unlinkat(path) returns 0 the dentry cache has no entry under
\* the key that openat resolves the same path to for the same process and
\* cwd.
C37_UnlinkKey ==
    [][\A p \in Pids :
          Unlinks(p)
          => abs_path(cwd[p], call'[p].path)
                \notin DOMAIN global_dentry_cache']_vars


\* C34: whatever the interleaving of the opens of one path by two cores,
\* every descriptor opened on that path is on the inode that the dentry
\* cache holds for the path.
C34_OneInodePerPath ==
    \A m \in DOMAIN fd_array, path \in RacePaths :
        \A i \in 0 .. (Len(fd_array[m]) - 1) :
            LET inode == open_file(slot(fd_array[m], i).open_file).inode
            IN (inode \in DOMAIN file /\ file[inode].name = rel_path(path))
               => inode = GlobalDentryCache_get(global_dentry_cache, path)


\* C36: after dup3(fd, new_fd, 0) returns new_fd, slot new_fd has the
\* OpenFile and the access bits of slot fd; and a write that returns a
\* count through any descriptor that is the write end of a pipe, slot 0 and
\* slot 1 included, appends its bytes to the buffer of that pipe.
C36_Dup3SameFile ==
    [][\A p \in Pids :
        LET fd == call'[p].fd
            d == slot(fds(p), fd)
            k == open_file(d.open_file).buf
        IN /\ (Returns(p, "dup3") /\ ret'[p] >= 0)
              => /\ ret'[p] = call'[p].new_fd
                 /\ slot(fds_next(p), call'[p].new_fd) = d
           /\ (/\ pc[p] # "sysret" /\ pc'[p] = "sysret"
               /\ call'[p].nr = "write" /\ ret'[p] > 0
               /\ in_range(fds(p), fd) /\ d.writable /\ ~d.readable
               /\ is_pipe(d.open_file))
              => global_buffer_list'[k]
                    = global_buffer_list[k] \o call'[p].data]_vars

\* Number of places of p in the queue q.
PlacesIn(q, p) == Cardinality({i \in 1 .. Len(q) : q[i] = p})

\* Number of places of p in the ready queue.
QueuePlaces(p) == PlacesIn(TASK_QUEUE, p)

\* p has yielded in the wait loop and waits in the ready queue.
Yielded(p) == pc[p] = "wait_261" /\ p \notin running /\ QueuePlaces(p) = 1

\* p is on the core again at the point where it yielded.
Resumed(p) == pc[p] = "wait_261" /\ p \in running

\* The safety half of C32: a task that leaves the core without finishing has
\* yielded: it is appended once to the ready queue and keeps its position;
\* a task is never on a core and in the queue at once and never twice in
\* the queue; while it is in the queue nothing of it changes; and the run
\* loop puts it back on the core at the position where it yielded.
C32_Safety ==
    \A p \in Pids :
        /\ (p \in running /\ p \notin running' /\ pc'[p] # "done")
              => /\ TASK_QUEUE' = Append(TASK_QUEUE, p)
                 /\ pc[p] = "wait_261" /\ pc'[p] = pc[p]
        /\ QueuePlaces(p)' <= 1
        /\ p \in running' => QueuePlaces(p)' = 0
        /\ (p \notin running /\ QueuePlaces(p) = 1)
              => /\ pc'[p] = pc[p] /\ call'[p] = call[p] /\ ret'[p] = ret[p]
                 /\ p \in running' => TASK_QUEUE = <<p>> \o TASK_QUEUE'

C33_AliveBeforeEnqueue ==
    [][\A p \in Pids :
        /\ (pc[p] = "clone_120" /\ pc'[p] = "clone_163")
              => /\ new_pid[p] \in alive'[p] /\ lock[p] = p
                 /\ new_pid[p] \notin running'
                 /\ PlacesIn(TASK_QUEUE', new_pid[p]) = 0
        /\ pc'[p] = "clone_163" => lock'[p] = p
        /\ (pc[p] = "clone_163" /\ pc'[p] = "sysret")
              => /\ new_pid[p] \in alive[p] /\ lock[p] = p
                 /\ PlacesIn(TASK_QUEUE, new_pid[p]) = 0
                 /\ PlacesIn(TASK_QUEUE', new_pid[p]) = 1
        /\ (pc[p] = "exit_94" /\ pc'[p] = "exit_99")
              => p \in alive[parent[p]]
      ]_vars

\* The per-process lock that the next step of p acquires: its own at lines
\* 86, 113, 244 and 268, its parent's at line 93, the lock of the zombie it
\* reaps at lines 272 and 285 (with a status pointer); NoParent when the
\* next step of p acquires no lock.
Wanted(p) ==
    IF pc[p] \in {"exit_86", "clone_113", "wait_244", "wait_268"} THEN p
    ELSE IF pc[p] = "exit_93" THEN parent[p]
    ELSE IF pc[p] = "wait_269" /\ zombie[p] # {} /\ call[p].status # 0
         THEN first_key_value(zombie[p])
    ELSE IF pc[p] = "wait_282" /\ call[p].pid \in zombie[p]
              /\ call[p].status # 0
         THEN call[p].pid
    ELSE NoParent

\* p spins on a lock that is held.
Blocked(p) ==
    /\ p \in running /\ Wanted(p) # NoParent /\ lock[Wanted(p)] # Free

\* p can take a step, or the holder of the lock it spins on can, or the
\* holder of the lock that one spins on, ... through at most n holders.
RECURSIVE Proceeds(_, _)
Proceeds(p, n) ==
    IF Blocked(p)
    THEN n > 0 /\ Proceeds(lock[Wanted(p)], n - 1)
    ELSE p \in running /\ pc[p] \notin {"none", "done", "halt", "panic"}

\* C35: while the machine is up, a task that spins on a per-process lock
\* does not wait for ever: the lock is held by a task that is on a core and
\* can step, or that spins on a lock whose holder can, and so on, so the
\* waiting tasks never form a cycle and never wait for a task that is off
\* the cores or finished.
C35_NoLockCycle ==
    \A p \in Pids :
        (Blocked(p) /\ ~halted) => Proceeds(p, Cardinality(Pids))

\* A chain of two waiting tasks: a grandchild spins at line 93 on the lock
\* of its parent, which holds its own lock and spins at line 93 on the lock
\* of the root, which is inside waitpid with that lock held.
C35_Witness ==
    \E p, q \in Pids :
        /\ Blocked(p) /\ pc[p] = "exit_93" /\ lock[p] = p /\ parent[p] = q
        /\ Blocked(q) /\ pc[q] = "exit_93" /\ lock[q] = q
        /\ lock[parent[q]] = parent[q] /\ call[parent[q]].nr = "waitpid"
        /\ parent[q] \in running /\ ~halted

====
